---- MODULE Spec2Model ----
(***************************************************************************)
(* Commit-aggregation pipeline of lunar-code (src/src/lib/github.ts and    *)
(* the API routes that drive it): the Bottleneck limiter, the three        *)
(* pipeline entry points, the profile fetch and the progress publisher.    *)
(*                                                                         *)
(* Time is in milliseconds since process start.  Commit dates are kept as  *)
(* a pair: the instant in units of 1/32 synodic month since the reference  *)
(* new moon (negative before it) and the local hour of day.                *)
(***************************************************************************)
EXTENDS Integers, Sequences, FiniteSets, TLC

\* ------------------------------------------------------------------ bounds
MaxRepos == 2
MaxFaults == 2
\* Repositories on a page of the repository listing (per_page), scaled to
\* the listings of the model so that a listing can span several pages.
PageSize == 1

\* ------------------------------------------------------- program constants
BATCH_SIZE == 5
BasicProgressEvery == 10
StatsProgressEvery == 5
MinTimeFloor == 1000
\* The synodic month (lunarCycle, 29.53058867 days) in the model's unit of
\* time for commit dates, 1/32 of it.
lunarCycle == 32

None == "none"

GITHUB_SYSTEM_AUTHORS ==
    { "noreply@github.com", "actions@github.com", "github-actions[bot]",
      "web-flow", "dependabot[bot]" }

Phases ==
    { "New Moon", "Waxing Crescent", "First Quarter", "Waxing Gibbous",
      "Full Moon", "Waning Gibbous", "Last Quarter", "Waning Crescent" }

Max(a, b) == IF a >= b THEN a ELSE b
Min(a, b) == IF a <= b THEN a ELSE b

\* JavaScript's % : the result takes the sign of the dividend.
JsRem(a, b) == IF a >= 0 THEN a % b ELSE 0 - ((0 - a) % b)

\* The phase fraction getLunarPhase computes for an instant t (in 1/32
\* synodic months since the reference new moon), in 1/32:
\* phase = (daysSinceNewMoon % lunarCycle) / lunarCycle.
Phase32(t) == JsRem(t, lunarCycle)

\* getLunarPhase: the label by the thresholds k/16 on the phase fraction.
getLunarPhase(t) ==
    LET phase32 == Phase32(t) IN
    IF phase32 < 2 \/ phase32 >= 30 THEN "New Moon"
    ELSE IF phase32 < 6 THEN "Waxing Crescent"
    ELSE IF phase32 < 10 THEN "First Quarter"
    ELSE IF phase32 < 14 THEN "Waxing Gibbous"
    ELSE IF phase32 < 18 THEN "Full Moon"
    ELSE IF phase32 < 22 THEN "Waning Gibbous"
    ELSE IF phase32 < 26 THEN "Last Quarter"
    ELSE "Waning Crescent"

\* Mutant of TimeBucket: dusk ends one hour early.
TimeBucketShortDusk(hour) ==
    IF hour >= 4 /\ hour < 8 THEN "dawn"
    ELSE IF hour >= 8 /\ hour < 16 THEN "day"
    ELSE IF hour >= 16 /\ hour < 19 THEN "dusk"
    ELSE "night"

\* The time-of-day bucket of a local hour (0..23).
TimeBucket(hour) ==
    IF hour >= 4 /\ hour < 8 THEN "dawn"
    ELSE IF hour >= 8 /\ hour < 16 THEN "day"
    ELSE IF hour >= 16 /\ hour < 20 THEN "dusk"
    ELSE "night"

\* ------------------------------------------------------- the remote's data
Commit(sha, login, email, t, hour, additions, deletions) ==
    [ sha |-> sha, login |-> login, email |-> email, t |-> t, hour |-> hour,
      additions |-> additions, deletions |-> deletions ]

\* The authenticated user's e-mail listing: one verified, one unverified,
\* and a verified address that is on the automation denylist.
RemoteEmails ==
    { [email |-> "alice@example.com", verified |-> TRUE],
      [email |-> "old@example.com", verified |-> FALSE],
      [email |-> "noreply@github.com", verified |-> TRUE] }

Usernames == { "alice", "web-flow" }

c1 == Commit("c1", "alice", "alice@example.com", 0, 5, 6, 4)
c2 == Commit("c2", "alice", "alice@example.com", 8, 9, 7, 3)
c3 == Commit("c3", "alice", "alice@example.com", 16, 17, 0, 0)
c4 == Commit("c4", "dependabot[bot]", "bot@example.com", 3, 22, 1, 1)
c5 == Commit("c5", None, "alice@example.com", -5, 2, 20, 5)
c6 == Commit("c6", "web-flow", "alice@example.com", 20, 12, 2, 2)
c7 == Commit("c7", "alice", "noreply@github.com", 24, 21, 3, 0)
c8 == Commit("c8", "bob", "old@example.com", 28, 6, 9, 9)
c9 == Commit("c9", "alice", None, 40, 0, 20, 5)
c10 == Commit("c10", "alice", "alice@example.com", 12, 19, 1, 0)

Repo(name, fork, commits) == [ name |-> name, fork |-> fork, commits |-> commits ]

RepoPool ==
    { Repo("forked", TRUE, << c1, c4 >>),
      Repo("main", FALSE, << c1, c2, c3 >>),
      Repo("big", FALSE, << c1, c5, c6, c2, c9, c7, c3, c8, c10 >>) }

\* A listing holds each repository at most once, in any order.
RepoListings ==
    UNION { { l \in [1..n -> RepoPool] :
                \A i, j \in 1..n : l[i] = l[j] => i = j } : n \in 0..MaxRepos }

\* What the remote can answer to a call.
ListOutcomes == { "ok", "404", "403", "403past", "409", "500" }
CallOutcomes == { "ok", "error" }
\* x-ratelimit-remaining and x-ratelimit-reset (seconds ahead of now) of a
\* profile response, whose headers the code reads.
HeaderRemaining == { 0, 10 }
HeaderResetAhead == { 0, 5 }
\* The same headers on every other response; the code never reads them.
OtherRemaining == { 10 }
OtherResetAhead == { 5 }

Routes == { "commits_first", "commits_v1", "commits", "details" }

\* ------------------------------------------------------------------- state
VARIABLES
    route,              \* the API route being served, None when idle
    pc,                 \* position of the request's code
    remoteRepos,        \* the remote's repository listing for the user
    username,           \* profile.login, the target username
    now,                \* Date.now()
    limiter,            \* Bottleneck settings: minTime, reservoir, refresh
    nextStartAt,        \* earliest start of the limiter's next job
    refreshAt,          \* next reservoir refresh
    queue,              \* jobs scheduled on the limiter, not started
    running,            \* jobs the limiter has started, not finished
    direct,             \* remote calls in progress issued outside the limiter
    lastResponse,       \* headers of the latest response, until the limiter next acts
    progressController, \* global.progressController
    emitted,            \* the last frame enqueued on the progress stream
    userEmails,         \* verified e-mails of the user
    nonForkRepos,       \* repositories the run iterates
    repoIdx,            \* index of the current repository in nonForkRepos
    processedRepos,
    visited,            \* indices of nonForkRepos the loop body was entered for
    userCommits,        \* commits of the current repository being processed
    foldIdx,            \* next commit to fold / to fetch details for
    batchStart,         \* first index of the current detail batch
    batchOk,            \* indices of the awaited batch whose fetch succeeded
    totalCommits,
    processedCommits,
    stats,              \* the CommitStats accumulator
    commitsByHour,
    wakeAt,             \* end of the rate-limit sleep
    thrown,             \* the error the run threw, None otherwise
    faults,             \* remote calls that failed so far
    caught,             \* statuses the per-repository catch block was entered with
    folded,             \* commits whose diff statistics were folded, in order
    progressCalls,      \* the frames handed to onProgress, in order: pass and count
    averaged,           \* times the sums of sizes were turned into averages
    failedBatches,      \* <<repository, first index>> of the batches that rejected
    session,            \* the session's access token, None when there is none
    userExists,         \* whether the store has a user of the profile's login
    cache,              \* the store's commitStats record of the user
    analysis,           \* status of the store's analysisProgress record, None when absent
    response,           \* the answer the route handler returned, None until then
    progress,           \* the progress field of the store's analysisProgress record
    pendingUpdates,     \* progress updates issued and not awaited, not yet applied
    other,              \* position of a second GET /api/commits of the same user
    writer              \* the details route's stream writer: closes and writes

limiterVars == << limiter, nextStartAt, refreshAt, queue, running >>
runVars == << userEmails, nonForkRepos, repoIdx, processedRepos, visited,
              userCommits, foldIdx, batchStart, batchOk, totalCommits,
              processedCommits, stats, commitsByHour, wakeAt, thrown,
              faults, caught, folded, progressCalls, averaged,
              failedBatches >>
storeVars == << session, userExists, cache, analysis, response, progress,
               pendingUpdates, other, writer >>

\* The progress field of the analysis record: {} as the upsert writes it,
\* a snapshot an onProgress callback wrote, or the final statistics.
Progress(kind, current) == [ kind |-> kind, current |-> current ]
NoProgress == Progress("none", 0)

\* The writer of the details route's TransformStream: whether it exists
\* and is closed, how often close() was called, whether the promise chain
\* on the statistics has settled, and the frames written after a close.
NoWriter == [ state |-> "none", closes |-> 0, settled |-> FALSE, lateWrites |-> 0 ]

\* writer.close()
Closed(w) == [ w EXCEPT !.state = "closed", !.closes = @ + 1, !.settled = TRUE ]

\* writer.write(frame)
Written(w) == IF w.state = "closed" THEN [ w EXCEPT !.lateWrites = @ + 1 ] ELSE w
vars == << route, pc, remoteRepos, username, now, limiter, nextStartAt,
           refreshAt, queue, running, direct, lastResponse,
           progressController, emitted, userEmails, nonForkRepos, repoIdx,
           processedRepos, visited, userCommits, foldIdx, batchStart,
           batchOk, totalCommits, processedCommits, stats, commitsByHour,
           wakeAt, thrown, faults, caught, folded, progressCalls, averaged,
           failedBatches, session, userExists, cache, analysis, response,
           progress, pendingUpdates, other, writer >>

EmptyCounts == [ p \in {} |-> 0 ]

\* The '' date of the initial largestCommit: no commit carries it.
NoDate == [ t |-> 0, hour |-> -1 ]

ZeroTimeOfDay == [ dawn |-> 0, day |-> 0, dusk |-> 0, night |-> 0 ]

\* A frame of the progress stream: a message, optionally with progress
\* (current/total) and a snapshot of the running counts.
Frame(message) ==
    [ message |-> message, hasProgress |-> FALSE, current |-> 0, total |-> 0,
      commitsByPhase |-> EmptyCounts, timeOfDay |-> ZeroTimeOfDay,
      totalCommits |-> 0 ]

\* Mutant of ProgressFrame: the frame is built before totalCommits++.
ProgressFrameBeforeCount(message, current, total, s, n) ==
    [ message |-> message, hasProgress |-> TRUE, current |-> current,
      total |-> total, commitsByPhase |-> s.commitsByPhase,
      timeOfDay |-> s.timeOfDay, totalCommits |-> Max(n - 1, 0) ]

ProgressFrame(message, current, total, s, n) ==
    [ message |-> message, hasProgress |-> TRUE, current |-> current,
      total |-> total, commitsByPhase |-> s.commitsByPhase,
      timeOfDay |-> s.timeOfDay, totalCommits |-> n ]

NoFrame == Frame(None)

InitStats ==
    [ commitsByPhase |-> EmptyCounts,
      averageCommitSize |-> EmptyCounts,
      timeOfDay |-> ZeroTimeOfDay,
      largestCommit |-> [ phase |-> "", size |-> 0, message |-> "", date |-> NoDate ],
      totalAdditions |-> 0,
      totalDeletions |-> 0 ]

\* No successful response since the last call started.
NoResponse == [ fresh |-> FALSE, op |-> None, remaining |-> 0, reset |-> 0, at |-> 0 ]

Response(op, remaining, reset, at) ==
    [ fresh |-> TRUE, op |-> op, remaining |-> remaining, reset |-> reset, at |-> at ]

\* Mutant of InitLimiter: the limiter admits two jobs at a time.
InitLimiterTwoAtATime ==
    [ maxConcurrent |-> 2,
      minTime |-> 250,
      reservoir |-> 1000,
      reservoirRefreshAmount |-> 1000,
      reservoirRefreshInterval |-> 3600000 ]

\* new Bottleneck({...}): the process-wide limiter as constructed.
InitLimiter ==
    [ maxConcurrent |-> 1,
      minTime |-> 250,
      reservoir |-> 1000,
      reservoirRefreshAmount |-> 1000,
      reservoirRefreshInterval |-> 3600000 ]

\* 24 hours in milliseconds.
CACHE_TTL == 24 * 60 * 60 * 1000

\* The user's commitStats record: when it was last updated and whose
\* statistics it holds, an earlier run's or the current one's.
CacheRecord(updatedAt, data) ==
    [ exists |-> TRUE, updatedAt |-> updatedAt, data |-> data ]

\* The user has no commitStats record.
NoCache == [ exists |-> FALSE, updatedAt |-> 0, data |-> None ]

\* Ages of the cached record when the request arrives: around the window.
CacheAges == { CACHE_TTL - 1, CACHE_TTL, CACHE_TTL + 1 }

\* Mutant of Fresh: the comparison is reversed.
FreshReversed(c, t) == c.exists /\ t - c.updatedAt > CACHE_TTL

\* The cache check of /api/commits at time t.
Fresh(c, t) == c.exists /\ t - c.updatedAt < CACHE_TTL

AnalysisStates == { None, "in_progress", "completed", "error" }
StoreOutcomes == { "ok", "error" }

\* Everything but the store and the session.
InitProgram ==
    /\ route = None
    /\ pc = "idle"
    /\ remoteRepos \in RepoListings
    /\ username \in Usernames
    /\ now = 0
    /\ limiter = InitLimiter
    /\ nextStartAt = 0
    /\ refreshAt = InitLimiter.reservoirRefreshInterval
    /\ queue = << >>
    /\ running = {}
    /\ direct = {}
    /\ lastResponse = NoResponse
    /\ progressController \in { None, "stream" }
    /\ emitted = NoFrame
    /\ userEmails = {}
    /\ nonForkRepos = << >>
    /\ repoIdx = 0
    /\ processedRepos = 0
    /\ visited = {}
    /\ userCommits = << >>
    /\ foldIdx = 0
    /\ batchStart = 0
    /\ batchOk = {}
    /\ totalCommits = 0
    /\ processedCommits = 0
    /\ stats = InitStats
    /\ commitsByHour = EmptyCounts
    /\ wakeAt = 0
    /\ thrown = None
    /\ faults = 0
    /\ caught = {}
    /\ folded = << >>
    /\ progressCalls = << >>
    /\ averaged = 0
    /\ failedBatches = {}
    /\ response = None
    /\ progress = NoProgress
    /\ pendingUpdates = {}
    /\ other = "idle"
    /\ writer = NoWriter

\* A known user with nothing cached and no analysis recorded.
Init ==
    /\ InitProgram
    /\ session \in { None, "token" }
    /\ userExists = TRUE
    /\ cache = NoCache
    /\ analysis = None

\* ------------------------------------------------------------ pure helpers
Get(f, k) == IF k \in DOMAIN f THEN f[k] ELSE 0

\* Mutant of Bump: the count is overwritten instead of incremented.
BumpOverwrite(f, k, n) ==
    [ x \in (DOMAIN f) \cup {k} |-> IF x = k THEN n ELSE f[x] ]

\* f[k] = (f[k] || 0) + n
Bump(f, k, n) ==
    [ x \in (DOMAIN f) \cup {k} |-> IF x = k THEN Get(f, k) + n ELSE f[x] ]

RECURSIVE SumOver(_, _)
SumOver(f, keys) ==
    IF keys = {} THEN 0
    ELSE LET k == CHOOSE x \in keys : TRUE IN f[k] + SumOver(f, keys \ {k})

SumCounts(f) == SumOver(f, DOMAIN f)

RECURSIVE FilterSeq(_, _, _)
FilterSeq(seq, keep(_), i) ==
    IF i > Len(seq) THEN << >>
    ELSE IF keep(seq[i]) THEN << seq[i] >> \o FilterSeq(seq, keep, i + 1)
    ELSE FilterSeq(seq, keep, i + 1)

\* Math.round of a non-negative quotient a / b, b > 0.
RoundDiv(a, b) == (2 * a + b) \div (2 * b)

\* repos.filter(repo => !repo.fork)
NonFork(repos) == FilterSeq(repos, LAMBDA r : ~r.fork, 1)

\* Page k (1, 2, ...) of a listing the remote serves PageSize items at a time.
Page(listing, k) ==
    SubSeq(listing, (k - 1) * PageSize + 1, Min(k * PageSize, Len(listing)))

\* octokit.paginate: the pages from page k on, one after the other.
RECURSIVE Paginate(_, _)
Paginate(listing, k) ==
    IF (k - 1) * PageSize >= Len(listing) THEN << >>
    ELSE Page(listing, k) \o Paginate(listing, k + 1)

\* Is the commit's author e-mail or login on the automation denylist?
OnDenylist(commit) ==
    \/ (commit.email # None /\ commit.email \in GITHUB_SYSTEM_AUTHORS)
    \/ (commit.login # None /\ commit.login \in GITHUB_SYSTEM_AUTHORS)

\* Is the commit the user's own by login or by verified e-mail?
OwnedByUser(commit, user, emails) ==
    \/ commit.login = user
    \/ (commit.email # None /\ commit.email \in emails)

\* Mutant of KeepCommit: the allow check overrides the denylist.
KeepCommitAllowFirst(commit, user, emails) ==
    OwnedByUser(commit, user, emails)

\* The commit filter of fetchUserCommits: the denylist check comes first,
\* then the username / verified e-mail check.
KeepCommit(commit, user, emails) ==
    LET authorEmail == commit.email
        authorLogin == commit.login
    IN  IF authorEmail # None /\ authorEmail \in GITHUB_SYSTEM_AUTHORS THEN FALSE
        ELSE IF authorLogin # None /\ authorLogin \in GITHUB_SYSTEM_AUTHORS THEN FALSE
        ELSE \/ authorLogin = user
             \/ (authorEmail # None /\ authorEmail \in emails)

FilterCommits(commits, user, emails) ==
    FilterSeq(commits, LAMBDA c : KeepCommit(c, user, emails), 1)

\* The basic fold of fetchUserCommits: phase count and time-of-day bucket.
FoldCommit(s, commit) ==
    [ s EXCEPT !.commitsByPhase = Bump(@, getLunarPhase(commit.t), 1),
               !.timeOfDay = [ @ EXCEPT ![TimeBucket(commit.hour)] = @ + 1 ] ]

\* The commits of a fetched batch that pass `detailedCommit.stats?.total`.
WithStats(commits) ==
    FilterSeq(commits, LAMBDA c : c.additions + c.deletions # 0, 1)

\* Mutant of AddDetail: a commit of equal size replaces the largest one.
AddDetailTieReplaces(s, commit) ==
    LET size == commit.additions + commit.deletions
        phase == getLunarPhase(commit.t)
    IN  IF size = 0 THEN s
        ELSE [ s EXCEPT
                 !.averageCommitSize = Bump(@, phase, size),
                 !.totalAdditions = @ + commit.additions,
                 !.totalDeletions = @ + commit.deletions,
                 !.largestCommit =
                     IF size >= @.size
                     THEN [ phase |-> phase, size |-> size, message |-> commit.sha,
                            date |-> [ t |-> commit.t, hour |-> commit.hour ] ]
                     ELSE @ ]

\* The detail fold of fetchUserCommits for one commit of a fetched batch.
AddDetail(s, commit) ==
    LET size == commit.additions + commit.deletions
        phase == getLunarPhase(commit.t)
    IN  IF size = 0 THEN s
        ELSE [ s EXCEPT
                 !.averageCommitSize = Bump(@, phase, size),
                 !.totalAdditions = @ + commit.additions,
                 !.totalDeletions = @ + commit.deletions,
                 !.largestCommit =
                     IF size > @.size
                     THEN [ phase |-> phase, size |-> size, message |-> commit.sha,
                            date |-> [ t |-> commit.t, hour |-> commit.hour ] ]
                     ELSE @ ]

RECURSIVE AddDetails(_, _, _, _)
AddDetails(s, commits, from, to) ==
    IF from > to THEN s
    ELSE AddDetails(AddDetail(s, commits[from]), commits, from + 1, to)

\* "Calculate averages": sum / (count || 1), rounded.
Finalize(s) ==
    [ s EXCEPT !.averageCommitSize =
        [ p \in DOMAIN @ |->
            RoundDiv(@[p], IF Get(s.commitsByPhase, p) = 0 THEN 1
                           ELSE Get(s.commitsByPhase, p)) ] ]

\* Mutant of updateRateLimits: the interval is not floored at 1000 ms.
updateRateLimitsNoFloor(lim, remaining, reset, t) ==
    LET nowSec == t \div 1000
        resetInMs == (reset - nowSec) * 1000
    IN  IF remaining > 0
        THEN [ lim EXCEPT !.minTime = Max(1, resetInMs \div remaining),
                          !.reservoir = remaining ]
        ELSE IF resetInMs > 0
        THEN [ lim EXCEPT !.reservoir = 0,
                          !.reservoirRefreshAmount = 5000,
                          !.reservoirRefreshInterval = resetInMs ]
        ELSE lim

\* Mutant of updateRateLimits: an exhausted budget leaves the refill
\* interval as it was.
updateRateLimitsKeepInterval(lim, remaining, reset, t) ==
    LET nowSec == t \div 1000
        resetInMs == (reset - nowSec) * 1000
    IN  IF remaining > 0
        THEN [ lim EXCEPT !.minTime = Max(MinTimeFloor, resetInMs \div remaining),
                          !.reservoir = remaining ]
        ELSE IF resetInMs > 0
        THEN [ lim EXCEPT !.reservoir = 0,
                          !.reservoirRefreshAmount = 5000 ]
        ELSE lim

\* Mutant of updateRateLimits: an exhausted budget pauses the limiter also
\* when the reset is not in the future.
updateRateLimitsPausesAlways(lim, remaining, reset, t) ==
    LET nowSec == t \div 1000
        resetInMs == (reset - nowSec) * 1000
    IN  IF remaining > 0
        THEN [ lim EXCEPT !.minTime = Max(MinTimeFloor, resetInMs \div remaining),
                          !.reservoir = remaining ]
        ELSE [ lim EXCEPT !.reservoir = 0,
                          !.reservoirRefreshAmount = 5000,
                          !.reservoirRefreshInterval = resetInMs ]

\* updateRateLimits: the limiter settings after a response with the given
\* x-ratelimit-remaining / x-ratelimit-reset headers, read at time t (ms).
updateRateLimits(lim, remaining, reset, t) ==
    LET nowSec == t \div 1000
        resetInMs == (reset - nowSec) * 1000
    IN  IF remaining > 0
        THEN [ lim EXCEPT !.minTime = Max(MinTimeFloor, resetInMs \div remaining),
                          !.reservoir = remaining ]
        ELSE IF resetInMs > 0
        THEN [ lim EXCEPT !.reservoir = 0,
                          !.reservoirRefreshAmount = 5000,
                          !.reservoirRefreshInterval = resetInMs ]
        ELSE lim

\* Mutant of RepoErrorAction: an unexpected error is rethrown.
RepoErrorActionRethrow(status, resetIn) ==
    IF status = "404" THEN "next"
    ELSE IF status = "403" THEN (IF resetIn > 0 THEN "sleep" ELSE "next")
    ELSE IF status = "409" THEN "next"
    ELSE "throw"

\* What the per-repository catch block of fetchUserCommits does with an
\* error: "next" (continue), "sleep" (wait for the reset, then continue).
RepoErrorAction(status, resetIn) ==
    IF status = "404" THEN "next"
    ELSE IF status = "403" THEN (IF resetIn > 0 THEN "sleep" ELSE "next")
    ELSE IF status = "409" THEN "next"
    ELSE "next"

\* ----------------------------------------------------- progress publisher
\* sendProgress throws when global.progressController is not a usable
\* stream controller: a controller whose stream was cancelled, or the
\* writer the details route stores in the same global (it has no enqueue).
SendThrows == progressController \in { "closed", "writer" }

\* Mutant of Sent: the frame is emitted without a registered controller.
SentWithoutObserver(frame) == IF progressController = "closed" THEN emitted ELSE frame

\* The frame last enqueued after sendProgress(frame) returned: it goes to
\* whichever stream's controller the global holds, the observer's or one
\* that another client opened since ("foreign").
Sent(frame) == IF progressController \in { "stream", "foreign" } THEN frame ELSE emitted

\* The remote answers a call: at most MaxFaults calls of a run fail.
Answered(outcome) ==
    /\ outcome # "ok" => faults < MaxFaults
    /\ faults' = IF outcome = "ok" THEN faults ELSE faults + 1

\* ------------------------------------------------------------- the limiter
Job(op, repo, idx) == [ op |-> op, repo |-> repo, idx |-> idx ]

\* Bottleneck starts a queued job only below maxConcurrent running jobs
\* and with a positive reservoir.
CanStart(lim, run) ==
    /\ Cardinality(run) < lim.maxConcurrent
    /\ lim.reservoir > 0

\* The limiter starts its oldest queued job, not before minTime has passed
\* since the previous start.
LimiterStart ==
    /\ queue # << >>
    /\ CanStart(limiter, running)
    /\ now' = Max(now, nextStartAt)
    /\ nextStartAt' = now' + limiter.minTime
    /\ running' = running \cup { Head(queue) }
    /\ queue' = Tail(queue)
    /\ limiter' = [ limiter EXCEPT !.reservoir = @ - 1 ]
    /\ lastResponse' = NoResponse
    /\ UNCHANGED << route, pc, remoteRepos, username, refreshAt, direct,
                    progressController, emitted, runVars, storeVars >>

\* Mutant of LimiterRefresh: the reservoir is never refilled.
LimiterRefreshNever ==
    /\ FALSE
    /\ UNCHANGED vars

\* The reservoir refresh timer fires while jobs wait on an empty reservoir.
LimiterRefresh ==
    /\ queue # << >>
    /\ limiter.reservoir = 0
    /\ now' = Max(now, refreshAt)
    /\ refreshAt' = now' + limiter.reservoirRefreshInterval
    /\ limiter' = [ limiter EXCEPT !.reservoir = limiter.reservoirRefreshAmount ]
    /\ lastResponse' = NoResponse
    /\ UNCHANGED << route, pc, remoteRepos, username, nextStartAt, queue,
                    running, direct, progressController, emitted, runVars, storeVars >>

\* ------------------------------------------------------------- environment
\* GET /api/progress: a new stream, its controller stored in the global.
ProgressGET ==
    /\ progressController # "stream"
    /\ progressController' = "stream"
    /\ UNCHANGED << route, pc, remoteRepos, username, now, limiterVars,
                    direct, lastResponse, emitted, runVars, storeVars >>

\* The observer goes away: its stream is cancelled, the global keeps the
\* controller.
ObserverDisconnect ==
    /\ progressController = "stream"
    /\ progressController' = "closed"
    /\ UNCHANGED << route, pc, remoteRepos, username, now, limiterVars,
                    direct, lastResponse, emitted, runVars, storeVars >>

\* Mutant of Request: the handler does not look at the session.
RequestWithoutSessionCheck(r) ==
    /\ pc = "idle"
    /\ route' = r
    /\ progressController' = IF r = "details" THEN "writer" ELSE progressController
    /\ queue' = Append(queue, Job("profile", 0, 0))
    /\ pc' = "await_profile"
    /\ UNCHANGED << remoteRepos, username, now, limiter, nextStartAt,
                    refreshAt, running, direct, lastResponse, emitted, runVars,
                    storeVars >>

\* ----------------------------------------------------------------- routes
\* A request arrives at one of the routes; each first fetches the profile.
\* The details route stores its stream writer in the global beforehand.
Request(r) ==
    /\ pc = "idle"
    /\ route' = r
    /\ IF session = None
       THEN /\ response' = "401"
            /\ pc' = "answered"
            /\ UNCHANGED << progressController, queue, writer >>
       ELSE /\ progressController' = IF r = "details" THEN "writer"
                                     ELSE progressController
            /\ writer' = IF r = "details" THEN [ NoWriter EXCEPT !.state = "open" ]
                          ELSE writer
            /\ queue' = Append(queue, Job("profile", 0, 0))
            /\ pc' = "await_profile"
            /\ UNCHANGED response
    /\ UNCHANGED << remoteRepos, username, now, limiter, nextStartAt,
                    refreshAt, running, direct, lastResponse, emitted, runVars,
                    session, userExists, cache, analysis, progress,
                    pendingUpdates, other >>

\* fetchUserProfile's job: on success it re-tunes the limiter from the
\* response headers; on failure the route answers with the error.
ProfileReturn(outcome, remaining, ahead) ==
    /\ UNCHANGED << folded, progressCalls >>
    /\ UNCHANGED << averaged, failedBatches, session, userExists, cache,
                    analysis, progress, pendingUpdates, other, writer >>
    /\ pc = "await_profile"
    /\ Answered(outcome)
    /\ UNCHANGED caught
    /\ Job("profile", 0, 0) \in running
    /\ running' = running \ { Job("profile", 0, 0) }
    /\ IF outcome = "ok"
       THEN LET reset == (now \div 1000) + ahead
                lim == updateRateLimits(limiter, remaining, reset, now)
            IN  /\ limiter' = lim
                /\ refreshAt' =
                     IF lim.reservoirRefreshInterval # limiter.reservoirRefreshInterval
                     THEN now + lim.reservoirRefreshInterval ELSE refreshAt
                /\ lastResponse' = Response("profile", remaining, reset, now)
                /\ pc' = CASE route = "commits_v1" -> "uc_start"
                           [] route = "commits_first" -> "f_start"
                           [] OTHER -> "r_lookup"
                /\ UNCHANGED << thrown, progressController, response >>
       ELSE /\ pc' = "failed"
            /\ thrown' = outcome
            /\ progressController' = IF route = "details" THEN None
                                     ELSE progressController
            /\ response' = IF route = "details" THEN "error" ELSE response
            /\ UNCHANGED << limiter, refreshAt, lastResponse >>
    /\ UNCHANGED << route, remoteRepos, username, now, nextStartAt, queue,
                    direct, emitted, userEmails,
                    nonForkRepos, repoIdx, processedRepos, visited,
                    userCommits, foldIdx, batchStart, batchOk, totalCommits,
                    processedCommits, stats, commitsByHour, wakeAt >>

\* -------------------------------------------------------- fetchUserCommits
\* The outer catch: sendProgress("Error: ...") and rethrow; when the
\* publisher itself throws, its TypeError is what the caller sees.
RunThrows(err) ==
    /\ pc' = "failed"
    /\ thrown' = IF SendThrows THEN "TypeError" ELSE err
    /\ emitted' = IF SendThrows THEN emitted ELSE Sent(Frame("Error"))

\* `continue` of the repository loop.
NextRepo ==
    /\ repoIdx' = repoIdx + 1
    /\ pc' = "uc_loop"

\* The per-repository catch block, entered with an error of the given
\* status and time until the reset its headers carry.
RepoCatch(status, resetIn) ==
    LET todo == RepoErrorAction(status, resetIn)
    IN  /\ caught' = caught \cup { status }
        /\ CASE todo = "next" ->
               NextRepo /\ UNCHANGED << wakeAt, thrown >>
          [] todo = "sleep" ->
               /\ pc' = "uc_sleep"
               /\ wakeAt' = now + resetIn
               /\ UNCHANGED << repoIdx, thrown >>
          [] OTHER ->
               /\ pc' = "failed"
               /\ thrown' = status
               /\ UNCHANGED << repoIdx, wakeAt >>

\* Entry up to the first await: two progress messages, then the e-mail
\* listing is scheduled on the limiter.
uc_Start ==
    /\ UNCHANGED << folded, progressCalls >>
    /\ UNCHANGED << averaged, failedBatches, storeVars >>
    /\ pc = "uc_start"
    /\ UNCHANGED << faults, caught >>
    /\ stats' = InitStats
    /\ IF SendThrows
       THEN RunThrows("TypeError") /\ UNCHANGED queue
       ELSE /\ emitted' = Sent(Frame("Fetching user emails..."))
            /\ queue' = Append(queue, Job("emails", 0, 0))
            /\ pc' = "uc_await_emails"
            /\ UNCHANGED thrown
    /\ UNCHANGED << route, remoteRepos, username, now, limiter, nextStartAt,
                    refreshAt, running, direct, lastResponse,
                    progressController, userEmails, nonForkRepos, repoIdx,
                    processedRepos, visited, userCommits, foldIdx,
                    batchStart, batchOk, totalCommits, processedCommits,
                    commitsByHour, wakeAt >>

\* The e-mail listing returns: keep the verified addresses, publish, and
\* schedule the repository listing.
uc_EmailsReturn(outcome, remaining, ahead) ==
    /\ UNCHANGED << folded, progressCalls >>
    /\ UNCHANGED << averaged, failedBatches, storeVars >>
    /\ pc = "uc_await_emails"
    /\ Answered(outcome)
    /\ UNCHANGED caught
    /\ Job("emails", 0, 0) \in running
    /\ running' = running \ { Job("emails", 0, 0) }
    /\ IF outcome = "ok"
       THEN /\ lastResponse' = Response("emails", remaining, (now \div 1000) + ahead, now)
            /\ userEmails' = { e.email : e \in { x \in RemoteEmails : x.verified } }
            /\ IF SendThrows
               THEN RunThrows("TypeError") /\ UNCHANGED queue
               ELSE /\ emitted' = Sent(Frame("Fetching repositories..."))
                    /\ queue' = Append(queue, Job("repos", 0, 0))
                    /\ pc' = "uc_await_repos"
                    /\ UNCHANGED thrown
       ELSE /\ RunThrows("401")
            /\ UNCHANGED << lastResponse, userEmails, queue >>
    /\ UNCHANGED << route, remoteRepos, username, now, limiter, nextStartAt,
                    refreshAt, direct, progressController, nonForkRepos,
                    repoIdx, processedRepos, visited, userCommits, foldIdx,
                    batchStart, batchOk, totalCommits, processedCommits,
                    stats, commitsByHour, wakeAt >>

\* The repository listing (all pages) returns: drop the forks, publish,
\* and enter the repository loop.
uc_ReposReturn(outcome, remaining, ahead) ==
    /\ UNCHANGED << folded, progressCalls >>
    /\ UNCHANGED << averaged, failedBatches, storeVars >>
    /\ pc = "uc_await_repos"
    /\ Answered(outcome)
    /\ UNCHANGED caught
    /\ Job("repos", 0, 0) \in running
    /\ running' = running \ { Job("repos", 0, 0) }
    /\ IF outcome = "ok"
       THEN /\ lastResponse' = Response("repos", remaining, (now \div 1000) + ahead, now)
            /\ nonForkRepos' = NonFork(Paginate(remoteRepos, 1))
            /\ IF SendThrows
               THEN RunThrows("TypeError") /\ UNCHANGED repoIdx
               ELSE /\ emitted' = Sent(Frame("Found repositories to analyze"))
                    /\ repoIdx' = 1
                    /\ pc' = "uc_loop"
                    /\ UNCHANGED thrown
       ELSE /\ RunThrows("401")
            /\ UNCHANGED << lastResponse, nonForkRepos, repoIdx >>
    /\ UNCHANGED << route, remoteRepos, username, now, limiter, nextStartAt,
                    refreshAt, queue, direct, progressController, userEmails,
                    processedRepos, visited, userCommits, foldIdx,
                    batchStart, batchOk, totalCommits, processedCommits,
                    stats, commitsByHour, wakeAt >>

\* Top of the loop body for the next repository: count it, publish the
\* repository boundary, schedule its commit listing.  A throwing publisher
\* lands in the per-repository catch, which continues.
uc_RepoBegin ==
    /\ UNCHANGED << folded, progressCalls >>
    /\ UNCHANGED << averaged, failedBatches, storeVars >>
    /\ pc = "uc_loop"
    /\ UNCHANGED faults
    /\ repoIdx <= Len(nonForkRepos)
    /\ processedRepos' = processedRepos + 1
    /\ visited' = visited \cup { repoIdx }
    /\ IF SendThrows
       THEN /\ RepoCatch("TypeError", 0)
            /\ UNCHANGED << emitted, queue >>
       ELSE /\ emitted' = Sent(ProgressFrame("Analyzing repositories",
                                 processedRepos + 1, Len(nonForkRepos),
                                 stats, totalCommits))
            /\ queue' = Append(queue, Job("commits", repoIdx, 0))
            /\ pc' = "uc_await_commits"
            /\ UNCHANGED << repoIdx, wakeAt, thrown, caught >>
    /\ UNCHANGED << route, remoteRepos, username, now, limiter, nextStartAt,
                    refreshAt, running, direct, lastResponse,
                    progressController, userEmails, nonForkRepos,
                    userCommits, foldIdx, batchStart, batchOk, totalCommits,
                    processedCommits, stats, commitsByHour >>

\* The commit listing of the current repository returns.  On success the
\* commits are filtered; on an error the per-repository catch decides.
uc_CommitsReturn(outcome, remaining, ahead) ==
    /\ UNCHANGED << folded, progressCalls >>
    /\ UNCHANGED << averaged, failedBatches, storeVars >>
    /\ pc = "uc_await_commits"
    /\ Answered(outcome)
    /\ Job("commits", repoIdx, 0) \in running
    /\ running' = running \ { Job("commits", repoIdx, 0) }
    /\ IF outcome = "ok"
       THEN LET kept == FilterCommits(nonForkRepos[repoIdx].commits, username, userEmails)
            IN  /\ lastResponse' = Response("commits", remaining, (now \div 1000) + ahead, now)
                /\ userCommits' = kept
                /\ IF kept = << >>
                   THEN NextRepo /\ UNCHANGED foldIdx
                   ELSE foldIdx' = 1 /\ pc' = "uc_fold" /\ UNCHANGED repoIdx
                /\ UNCHANGED << wakeAt, thrown, caught >>
       ELSE LET status == IF outcome = "403past" THEN "403" ELSE outcome
                reset == IF outcome = "403" THEN (now \div 1000) + 3 ELSE 0
                resetIn == reset * 1000 - now
            IN  /\ RepoCatch(status, resetIn)
                /\ UNCHANGED << lastResponse, userCommits, foldIdx >>
    /\ UNCHANGED << route, remoteRepos, username, now, limiter, nextStartAt,
                    refreshAt, queue, direct, progressController, emitted,
                    userEmails, nonForkRepos, processedRepos, visited,
                    batchStart, batchOk, totalCommits, processedCommits,
                    stats, commitsByHour >>

\* The rate-limit sleep ends; the catch block continues with the next
\* repository.
uc_Wake ==
    /\ UNCHANGED << folded, progressCalls >>
    /\ UNCHANGED << averaged, failedBatches, storeVars >>
    /\ pc = "uc_sleep"
    /\ UNCHANGED << faults, caught >>
    /\ now' = Max(now, wakeAt)
    /\ NextRepo
    /\ UNCHANGED << route, remoteRepos, username, limiterVars, direct,
                    lastResponse, progressController, emitted, userEmails,
                    nonForkRepos, processedRepos, visited, userCommits,
                    foldIdx, batchStart, batchOk, totalCommits,
                    processedCommits, stats, commitsByHour, wakeAt, thrown >>

\* One iteration of the basic loop: fold the commit, count it, publish a
\* snapshot on every 5th commit.  A throwing publisher ends the work on
\* this repository (per-repository catch).
uc_Fold ==
    /\ UNCHANGED << folded, progressCalls >>
    /\ UNCHANGED << averaged, failedBatches, storeVars >>
    /\ pc = "uc_fold"
    /\ UNCHANGED faults
    /\ LET commit == userCommits[foldIdx]
           s == FoldCommit(stats, commit)
           n == totalCommits + 1
           publish == (n % StatsProgressEvery = 0)
       IN  /\ stats' = s
           /\ totalCommits' = n
           /\ IF publish /\ SendThrows
              THEN RepoCatch("TypeError", 0)
                   /\ UNCHANGED << emitted, foldIdx, batchStart >>
              ELSE /\ emitted' = IF publish
                                 THEN Sent(ProgressFrame("Analyzing repositories",
                                            processedRepos, Len(nonForkRepos), s, n))
                                 ELSE emitted
                   /\ IF foldIdx < Len(userCommits)
                      THEN foldIdx' = foldIdx + 1 /\ UNCHANGED << pc, batchStart >>
                      ELSE pc' = "uc_batch" /\ batchStart' = 1 /\ UNCHANGED foldIdx
                   /\ UNCHANGED << repoIdx, wakeAt, thrown, caught >>
    /\ UNCHANGED << route, remoteRepos, username, now, limiterVars, direct,
                    lastResponse, progressController, userEmails,
                    nonForkRepos, processedRepos, visited, userCommits,
                    batchOk, processedCommits, commitsByHour >>

\* Last index of the detail batch that starts at `from`.
BatchEnd(from, n) == Min(from + BATCH_SIZE - 1, n)

RECURSIVE DetailJobs(_, _, _)
DetailJobs(repo, from, to) ==
    IF from > to THEN << >>
    ELSE << Job("detail", repo, from) >> \o DetailJobs(repo, from + 1, to)

\* Top of the batch loop: the detail fetches of the next batch are all
\* scheduled on the limiter at once (batch.map), then awaited together.
uc_BatchDispatch ==
    /\ UNCHANGED << folded, progressCalls >>
    /\ UNCHANGED << averaged, failedBatches, storeVars >>
    /\ pc = "uc_batch"
    /\ UNCHANGED << faults, caught >>
    /\ batchStart <= Len(userCommits)
    /\ queue' = queue \o DetailJobs(repoIdx, batchStart,
                                    BatchEnd(batchStart, Len(userCommits)))
    /\ batchOk' = {}
    /\ pc' = "uc_await_batch"
    /\ UNCHANGED << route, remoteRepos, username, now, limiter, nextStartAt,
                    refreshAt, running, direct, lastResponse,
                    progressController, emitted, userEmails, nonForkRepos,
                    repoIdx, processedRepos, visited, userCommits, foldIdx,
                    batchStart, totalCommits, processedCommits, stats,
                    commitsByHour, wakeAt, thrown >>

\* Mutant of AfterBatch: the loop leaves the repository after a batch.
AfterBatchLeavesRepository ==
    /\ NextRepo
    /\ UNCHANGED batchStart

\* The batch loop moves on: next batch, or the repository is done.
AfterBatch ==
    IF batchStart + BATCH_SIZE <= Len(userCommits)
    THEN /\ batchStart' = batchStart + BATCH_SIZE
         /\ pc' = "uc_batch"
         /\ UNCHANGED repoIdx
    ELSE /\ NextRepo
         /\ UNCHANGED batchStart

\* A detail fetch returns.  Promise.all of the awaited batch rejects on the
\* first failure (the batch is dropped, its other fetches stay with the
\* limiter) and resolves when every fetch of the batch has succeeded; the
\* results are then folded in batch order.  The result of a fetch whose
\* batch was already dropped is ignored.
uc_DetailReturn(job, outcome, remaining, ahead) ==
    /\ UNCHANGED progressCalls
    /\ UNCHANGED << averaged, storeVars >>
    /\ job \in running
    /\ Answered(outcome)
    /\ UNCHANGED caught
    /\ job.op = "detail"
    /\ running' = running \ { job }
    /\ lastResponse' = IF outcome = "ok"
                       THEN Response("detail", remaining, (now \div 1000) + ahead, now)
                       ELSE lastResponse
    /\ LET awaited == /\ pc = "uc_await_batch"
                      /\ job.repo = repoIdx
                      /\ job.idx >= batchStart
           last == BatchEnd(batchStart, Len(userCommits))
       IN  IF ~awaited
           THEN UNCHANGED << pc, repoIdx, batchStart, batchOk, stats, folded,
                             failedBatches >>
           ELSE IF outcome # "ok"
           THEN /\ failedBatches' = failedBatches \cup { << repoIdx, batchStart >> }
                /\ AfterBatch
                /\ UNCHANGED << batchOk, stats, folded >>
           ELSE IF batchOk \cup { job.idx } = batchStart..last
           THEN /\ stats' = AddDetails(stats, userCommits, batchStart, last)
                /\ folded' = folded \o WithStats(SubSeq(userCommits, batchStart, last))
                /\ batchOk' = {}
                /\ AfterBatch
                /\ UNCHANGED failedBatches
           ELSE /\ batchOk' = batchOk \cup { job.idx }
                /\ UNCHANGED << pc, repoIdx, batchStart, stats, folded,
                                failedBatches >>
    /\ UNCHANGED << route, remoteRepos, username, now, limiter, nextStartAt,
                    refreshAt, queue, direct, progressController, emitted,
                    userEmails, nonForkRepos, processedRepos, visited,
                    userCommits, foldIdx, totalCommits, processedCommits,
                    commitsByHour, wakeAt, thrown >>

\* After the last repository: the averages are computed, the completion is
\* published and the stats are returned.
uc_Finish ==
    /\ UNCHANGED << folded, progressCalls >>
    /\ UNCHANGED << failedBatches, storeVars >>
    /\ pc = "uc_loop"
    /\ UNCHANGED << faults, caught >>
    /\ repoIdx > Len(nonForkRepos)
    /\ stats' = Finalize(stats)
    /\ averaged' = averaged + 1
    /\ IF SendThrows
       THEN RunThrows("TypeError")
       ELSE /\ emitted' = Sent(Frame("Analysis complete!"))
            /\ pc' = "completed"
            /\ UNCHANGED thrown
    /\ UNCHANGED << route, remoteRepos, username, now, limiterVars, direct,
                    lastResponse, progressController, userEmails,
                    nonForkRepos, repoIdx, processedRepos, visited,
                    userCommits, foldIdx, batchStart, batchOk, totalCommits,
                    processedCommits, commitsByHour, wakeAt >>

\* ------------------------------------------- fetchUserRepos (limiter job)
\* fetchUserRepos: the repository listing, scheduled on the limiter.
ScheduleUserRepos(next) ==
    /\ queue' = Append(queue, Job("repos", 0, 0))
    /\ pc' = next

\* A remote call issued directly on the client, outside the limiter.
Call(op, repo, idx) == [ op |-> op, repo |-> repo, idx |-> idx ]

\* --------------------------------------------------- fetchBasicCommitStats
b_Start ==
    /\ pc = "b_start"
    /\ ScheduleUserRepos("b_await_repos")
    /\ UNCHANGED << route, remoteRepos, username, now, limiter, nextStartAt,
                    refreshAt, running, direct, lastResponse,
                    progressController, emitted, runVars, storeVars >>

\* fetchUserRepos returns (forks dropped) or throws; nothing catches it.
b_ReposReturn(outcome, remaining, ahead) ==
    /\ UNCHANGED << folded, progressCalls >>
    /\ UNCHANGED << averaged, failedBatches, storeVars >>
    /\ pc \in { "b_await_repos", "d_await_repos" }
    /\ Answered(outcome)
    /\ UNCHANGED caught
    /\ Job("repos", 0, 0) \in running
    /\ running' = running \ { Job("repos", 0, 0) }
    /\ IF outcome = "ok"
       THEN /\ lastResponse' = Response("repos", remaining, (now \div 1000) + ahead, now)
            /\ nonForkRepos' = NonFork(Paginate(remoteRepos, 1))
            /\ repoIdx' = 1
            /\ pc' = IF pc = "b_await_repos" THEN "b_loop" ELSE "d_loop"
            /\ UNCHANGED thrown
       ELSE /\ pc' = "failed"
            /\ thrown' = "401"
            /\ UNCHANGED << lastResponse, nonForkRepos, repoIdx >>
    /\ UNCHANGED << route, remoteRepos, username, now, limiter, nextStartAt,
                    refreshAt, queue, direct, progressController, emitted,
                    userEmails, processedRepos, visited, userCommits,
                    foldIdx, batchStart, batchOk, totalCommits,
                    processedCommits, stats, commitsByHour, wakeAt >>

\* Top of the repository loop of fetchBasicCommitStats and of
\* fetchDetailedCommitStats: the commit listing is requested directly.
b_RepoBegin ==
    /\ UNCHANGED << folded, progressCalls >>
    /\ UNCHANGED << averaged, failedBatches, storeVars >>
    /\ pc \in { "b_loop", "d_loop" }
    /\ UNCHANGED << faults, caught >>
    /\ repoIdx <= Len(nonForkRepos)
    /\ visited' = visited \cup { repoIdx }
    /\ direct' = direct \cup { Call("commits", repoIdx, 0) }
    /\ lastResponse' = NoResponse
    /\ pc' = IF pc = "b_loop" THEN "b_await_commits" ELSE "d_await_commits"
    /\ UNCHANGED << route, remoteRepos, username, now, limiterVars,
                    progressController, emitted, userEmails, nonForkRepos,
                    repoIdx, processedRepos, userCommits, foldIdx,
                    batchStart, batchOk, totalCommits, processedCommits,
                    stats, commitsByHour, wakeAt, thrown >>

\* The commit listing returns.  A failure is not caught: it ends the run.
b_CommitsReturn(outcome, remaining, ahead) ==
    /\ UNCHANGED << folded, progressCalls >>
    /\ UNCHANGED << averaged, failedBatches, storeVars >>
    /\ pc \in { "b_await_commits", "d_await_commits" }
    /\ Answered(outcome)
    /\ UNCHANGED caught
    /\ Call("commits", repoIdx, 0) \in direct
    /\ direct' = direct \ { Call("commits", repoIdx, 0) }
    /\ IF outcome = "ok"
       THEN LET commits == nonForkRepos[repoIdx].commits
                basic == (pc = "b_await_commits")
            IN  /\ lastResponse' = Response("commits", remaining, (now \div 1000) + ahead, now)
                /\ userCommits' = commits
                /\ IF commits = << >>
                   THEN /\ repoIdx' = repoIdx + 1
                        /\ pc' = IF basic THEN "b_loop" ELSE "d_loop"
                        /\ UNCHANGED foldIdx
                   ELSE /\ foldIdx' = 1
                        /\ pc' = IF basic THEN "b_fold" ELSE "d_commit"
                        /\ UNCHANGED repoIdx
                /\ UNCHANGED thrown
       ELSE /\ pc' = "failed"
            /\ thrown' = IF outcome = "403past" THEN "403" ELSE outcome
            /\ UNCHANGED << lastResponse, userCommits, repoIdx, foldIdx >>
    /\ UNCHANGED << route, remoteRepos, username, now, limiterVars,
                    progressController, emitted, userEmails, nonForkRepos,
                    processedRepos, visited, batchStart, batchOk,
                    totalCommits, processedCommits, stats, commitsByHour,
                    wakeAt >>

\* The fold of fetchBasicCommitStats: total, phase count, hour count.
FoldBasic(s, commit) ==
    [ s EXCEPT !.commitsByPhase = Bump(@, getLunarPhase(commit.t), 1) ]

\* One iteration of the commit loop of fetchBasicCommitStats; onProgress
\* is called on every 10th commit (the details route writes the frame to
\* its stream).
b_Fold ==
    /\ UNCHANGED folded
    /\ UNCHANGED << averaged, failedBatches, session, userExists, cache,
                    analysis, response, progress, other >>
    /\ pc = "b_fold"
    /\ UNCHANGED << faults, caught >>
    /\ LET commit == userCommits[foldIdx]
           s == FoldBasic(stats, commit)
           n == totalCommits + 1
       IN  /\ totalCommits' = n
           /\ stats' = s
           /\ commitsByHour' = Bump(commitsByHour, commit.hour, 1)
           /\ emitted' = IF n % BasicProgressEvery = 0 /\ route = "details"
                         THEN ProgressFrame("basic", n, n, s, n)
                         ELSE emitted
           /\ progressCalls' = IF n % BasicProgressEvery = 0
                               THEN Append(progressCalls, [ pass |-> "basic", current |-> n ])
                               ELSE progressCalls
           /\ pendingUpdates' = IF n % BasicProgressEvery = 0
                                THEN pendingUpdates \cup { Progress("basic", n) }
                                ELSE pendingUpdates
           /\ writer' = IF n % BasicProgressEvery = 0 /\ route = "details"
                         THEN Written(writer)
                         ELSE writer
    /\ IF foldIdx < Len(userCommits)
       THEN foldIdx' = foldIdx + 1 /\ UNCHANGED << pc, repoIdx >>
       ELSE repoIdx' = repoIdx + 1 /\ pc' = "b_loop" /\ UNCHANGED foldIdx
    /\ UNCHANGED << route, remoteRepos, username, now, limiterVars, direct,
                    lastResponse, progressController, userEmails,
                    nonForkRepos, processedRepos, visited, userCommits,
                    batchStart, batchOk, processedCommits, wakeAt, thrown >>

\* fetchBasicCommitStats returns its stats: to the commits route, or to
\* fetchDetailedCommitStats, which lists the repositories once more.
b_Return ==
    /\ pc = "b_loop"
    /\ repoIdx > Len(nonForkRepos)
    /\ IF route = "details"
       THEN ScheduleUserRepos("d_await_repos")
       ELSE pc' = "r_transaction" /\ UNCHANGED queue
    /\ UNCHANGED << route, remoteRepos, username, now, limiter, nextStartAt,
                    refreshAt, running, direct, lastResponse,
                    progressController, emitted, runVars, storeVars >>

\* ------------------------------------------------ fetchDetailedCommitStats
\* Next commit of the detail loop: it is counted, then its details are
\* requested directly.
d_CommitFetch ==
    /\ UNCHANGED << folded, progressCalls >>
    /\ UNCHANGED << averaged, failedBatches, storeVars >>
    /\ pc = "d_commit"
    /\ UNCHANGED << faults, caught >>
    /\ processedCommits' = processedCommits + 1
    /\ direct' = direct \cup { Call("detail", repoIdx, foldIdx) }
    /\ lastResponse' = NoResponse
    /\ pc' = "d_await_detail"
    /\ UNCHANGED << route, remoteRepos, username, now, limiterVars,
                    progressController, emitted, userEmails, nonForkRepos,
                    repoIdx, processedRepos, visited, userCommits, foldIdx,
                    batchStart, batchOk, totalCommits, stats, commitsByHour,
                    wakeAt, thrown >>

\* n / d on JavaScript numbers: the quotient, finite unless d is 0 (then
\* NaN or an infinity).
JsDivide(n, d) == [ finite |-> d # 0, num |-> n, den |-> d ]

\* The detail fold of fetchDetailedCommitStats.
AddDetailed(s, commit) ==
    LET size == commit.additions + commit.deletions
    IN  [ s EXCEPT
            !.totalAdditions = @ + commit.additions,
            !.totalDeletions = @ + commit.deletions,
            !.largestCommit =
                IF size > @.size
                THEN [ phase |-> "", size |-> size, message |-> commit.sha,
                       date |-> [ t |-> commit.t, hour |-> commit.hour ] ]
                ELSE @ ]

\* The details of a commit return.  A failure is caught and logged; on
\* success the totals are updated and every 5th processed commit is
\* published through onProgress.
d_DetailReturn(outcome, remaining, ahead) ==
    /\ UNCHANGED << averaged, failedBatches, session, userExists, cache,
                    analysis, response, progress, other >>
    /\ pc = "d_await_detail"
    /\ Answered(outcome)
    /\ UNCHANGED caught
    /\ Call("detail", repoIdx, foldIdx) \in direct
    /\ direct' = direct \ { Call("detail", repoIdx, foldIdx) }
    /\ IF outcome = "ok"
       THEN /\ lastResponse' = Response("detail", remaining, (now \div 1000) + ahead, now)
            /\ stats' = AddDetailed(stats, userCommits[foldIdx])
            /\ folded' = Append(folded, userCommits[foldIdx])
            /\ emitted' = IF processedCommits % StatsProgressEvery = 0
                          THEN ProgressFrame("details", processedCommits,
                                             totalCommits, InitStats, 0)
                          ELSE emitted
            /\ progressCalls' = IF processedCommits % StatsProgressEvery = 0
                                THEN Append(progressCalls, [ pass |-> "details", current |-> processedCommits ])
                                ELSE progressCalls
            /\ pendingUpdates' = IF processedCommits % StatsProgressEvery = 0
                                 THEN pendingUpdates \cup
                                        { Progress("details", processedCommits) }
                                 ELSE pendingUpdates
            /\ writer' = IF processedCommits % StatsProgressEvery = 0
                          THEN Written(writer)
                          ELSE writer
       ELSE UNCHANGED << lastResponse, stats, emitted, folded, progressCalls,
                         pendingUpdates, writer >>
    /\ IF foldIdx < Len(userCommits)
       THEN foldIdx' = foldIdx + 1 /\ pc' = "d_commit" /\ UNCHANGED repoIdx
       ELSE repoIdx' = repoIdx + 1 /\ pc' = "d_loop" /\ UNCHANGED foldIdx
    /\ UNCHANGED << route, remoteRepos, username, now, limiterVars,
                    progressController, userEmails, nonForkRepos,
                    processedRepos, visited, userCommits, batchStart,
                    batchOk, totalCommits, processedCommits, commitsByHour,
                    wakeAt, thrown >>

\* fetchDetailedCommitStats returns.
d_Return ==
    /\ pc = "d_loop"
    /\ repoIdx > Len(nonForkRepos)
    /\ stats' = [ stats EXCEPT !.averageCommitSize =
                    JsDivide(stats.totalAdditions + stats.totalDeletions,
                             totalCommits) ]
    /\ pc' = "details_then"
    /\ UNCHANGED << route, remoteRepos, username, now, limiterVars, direct,
                    lastResponse, progressController, emitted, userEmails,
                    nonForkRepos, repoIdx, processedRepos, visited,
                    userCommits, foldIdx, batchStart, batchOk, totalCommits,
                    processedCommits, commitsByHour, wakeAt, thrown, faults,
                    caught, folded, progressCalls, averaged, failedBatches,
                    storeVars >>

\* ------------------------------------ fetchUserCommits, the first version
\* The first version calls the client directly, reads only the first page
\* of the repository listing and publishes no progress.
f_NextRepo ==
    /\ repoIdx' = repoIdx + 1
    /\ pc' = "f_loop"

\* Its per-repository catch block: the same cases as the later version.
f_RepoCatch(status, resetIn) ==
    /\ caught' = caught \cup { status }
    /\ IF RepoErrorAction(status, resetIn) = "sleep"
       THEN /\ pc' = "f_sleep"
            /\ wakeAt' = now + resetIn
            /\ UNCHANGED repoIdx
       ELSE f_NextRepo /\ UNCHANGED wakeAt

\* Entry: the e-mail listing is requested.
f_Start ==
    /\ UNCHANGED << folded, progressCalls >>
    /\ UNCHANGED << averaged, failedBatches, storeVars >>
    /\ pc = "f_start"
    /\ stats' = InitStats
    /\ direct' = direct \cup { Call("emails", 0, 0) }
    /\ lastResponse' = NoResponse
    /\ pc' = "f_await_emails"
    /\ UNCHANGED << route, remoteRepos, username, now, limiterVars,
                    progressController, emitted, userEmails, nonForkRepos,
                    repoIdx, processedRepos, visited, userCommits, foldIdx,
                    batchStart, batchOk, totalCommits, processedCommits,
                    commitsByHour, wakeAt, thrown, faults, caught >>

\* The e-mail listing returns; the repository listing is requested (one
\* request, per_page items).  A failure ends the run (outer catch).
f_EmailsReturn(outcome, remaining, ahead) ==
    /\ UNCHANGED << folded, progressCalls >>
    /\ UNCHANGED << averaged, failedBatches, storeVars >>
    /\ pc = "f_await_emails"
    /\ Answered(outcome)
    /\ Call("emails", 0, 0) \in direct
    /\ IF outcome = "ok"
       THEN /\ userEmails' = { e.email : e \in { x \in RemoteEmails : x.verified } }
            /\ direct' = { Call("repos", 0, 0) }
            /\ lastResponse' = NoResponse
            /\ pc' = "f_await_repos"
            /\ UNCHANGED thrown
       ELSE /\ direct' = direct \ { Call("emails", 0, 0) }
            /\ pc' = "failed"
            /\ thrown' = "401"
            /\ UNCHANGED << userEmails, lastResponse >>
    /\ UNCHANGED << route, remoteRepos, username, now, limiterVars,
                    progressController, emitted, nonForkRepos, repoIdx,
                    processedRepos, visited, userCommits, foldIdx,
                    batchStart, batchOk, totalCommits, processedCommits,
                    stats, commitsByHour, wakeAt, caught >>

\* The first page of the repository listing returns: drop its forks and
\* enter the repository loop.
f_ReposReturn(outcome, remaining, ahead) ==
    /\ UNCHANGED << folded, progressCalls >>
    /\ UNCHANGED << averaged, failedBatches, storeVars >>
    /\ pc = "f_await_repos"
    /\ Answered(outcome)
    /\ Call("repos", 0, 0) \in direct
    /\ direct' = direct \ { Call("repos", 0, 0) }
    /\ IF outcome = "ok"
       THEN /\ lastResponse' = Response("repos", remaining, (now \div 1000) + ahead, now)
            /\ nonForkRepos' = NonFork(Page(remoteRepos, 1))
            /\ repoIdx' = 1
            /\ pc' = "f_loop"
            /\ UNCHANGED thrown
       ELSE /\ pc' = "failed"
            /\ thrown' = "401"
            /\ UNCHANGED << lastResponse, nonForkRepos, repoIdx >>
    /\ UNCHANGED << route, remoteRepos, username, now, limiterVars,
                    progressController, emitted, userEmails, processedRepos,
                    visited, userCommits, foldIdx, batchStart, batchOk,
                    totalCommits, processedCommits, stats, commitsByHour,
                    wakeAt, caught >>

\* Top of the loop body: count the repository, request its commit listing.
f_RepoBegin ==
    /\ UNCHANGED << folded, progressCalls >>
    /\ UNCHANGED << averaged, failedBatches, storeVars >>
    /\ pc = "f_loop"
    /\ repoIdx <= Len(nonForkRepos)
    /\ processedRepos' = processedRepos + 1
    /\ visited' = visited \cup { repoIdx }
    /\ direct' = direct \cup { Call("commits", repoIdx, 0) }
    /\ lastResponse' = NoResponse
    /\ pc' = "f_await_commits"
    /\ UNCHANGED << route, remoteRepos, username, now, limiterVars,
                    progressController, emitted, userEmails, nonForkRepos,
                    repoIdx, userCommits, foldIdx, batchStart, batchOk,
                    totalCommits, processedCommits, stats, commitsByHour,
                    wakeAt, thrown, faults, caught >>

\* The commit listing returns: filter it, or let the catch block decide.
f_CommitsReturn(outcome, remaining, ahead) ==
    /\ UNCHANGED << folded, progressCalls >>
    /\ UNCHANGED << averaged, failedBatches, storeVars >>
    /\ pc = "f_await_commits"
    /\ Answered(outcome)
    /\ Call("commits", repoIdx, 0) \in direct
    /\ direct' = direct \ { Call("commits", repoIdx, 0) }
    /\ IF outcome = "ok"
       THEN LET kept == FilterCommits(nonForkRepos[repoIdx].commits, username, userEmails)
            IN  /\ lastResponse' = Response("commits", remaining, (now \div 1000) + ahead, now)
                /\ userCommits' = kept
                /\ IF kept = << >>
                   THEN f_NextRepo /\ UNCHANGED foldIdx
                   ELSE foldIdx' = 1 /\ pc' = "f_commit" /\ UNCHANGED repoIdx
                /\ UNCHANGED << wakeAt, caught >>
       ELSE LET status == IF outcome = "403past" THEN "403" ELSE outcome
                reset == IF outcome = "403" THEN (now \div 1000) + 3 ELSE 0
                resetIn == reset * 1000 - now
            IN  /\ f_RepoCatch(status, resetIn)
                /\ UNCHANGED << lastResponse, userCommits, foldIdx >>
    /\ UNCHANGED << route, remoteRepos, username, now, limiterVars,
                    progressController, emitted, userEmails, nonForkRepos,
                    processedRepos, visited, batchStart, batchOk,
                    totalCommits, processedCommits, stats, commitsByHour,
                    thrown >>

\* The rate-limit sleep ends; the loop continues with the next repository.
f_Wake ==
    /\ UNCHANGED << folded, progressCalls >>
    /\ UNCHANGED << averaged, failedBatches, storeVars >>
    /\ pc = "f_sleep"
    /\ now' = Max(now, wakeAt)
    /\ f_NextRepo
    /\ UNCHANGED << route, remoteRepos, username, limiterVars, direct,
                    lastResponse, progressController, emitted, userEmails,
                    nonForkRepos, processedRepos, visited, userCommits,
                    foldIdx, batchStart, batchOk, totalCommits,
                    processedCommits, stats, commitsByHour, wakeAt, thrown,
                    faults, caught >>

\* Next commit of the repository: its details are requested.
f_CommitFetch ==
    /\ pc = "f_commit"
    /\ direct' = direct \cup { Call("detail", repoIdx, foldIdx) }
    /\ lastResponse' = NoResponse
    /\ pc' = "f_await_detail"
    /\ UNCHANGED << route, remoteRepos, username, now, limiterVars,
                    progressController, emitted, runVars, storeVars >>

\* The fold of the first version, done once the details are there: phase
\* count, sizes (whenever the response carries stats), time of day.
FoldFirst(s, commit) ==
    LET size == commit.additions + commit.deletions
        phase == getLunarPhase(commit.t)
    IN  [ s EXCEPT
            !.commitsByPhase = Bump(@, phase, 1),
            !.averageCommitSize = Bump(@, phase, size),
            !.totalAdditions = @ + commit.additions,
            !.totalDeletions = @ + commit.deletions,
            !.largestCommit =
                IF size > @.size
                THEN [ phase |-> phase, size |-> size, message |-> commit.sha,
                       date |-> [ t |-> commit.t, hour |-> commit.hour ] ]
                ELSE @,
            !.timeOfDay = [ @ EXCEPT ![TimeBucket(commit.hour)] = @ + 1 ] ]

\* The details return: the commit is folded and counted; a failure is
\* caught and the commit is left out.
f_DetailReturn(outcome, remaining, ahead) ==
    /\ UNCHANGED progressCalls
    /\ UNCHANGED << averaged, failedBatches, storeVars >>
    /\ pc = "f_await_detail"
    /\ Answered(outcome)
    /\ Call("detail", repoIdx, foldIdx) \in direct
    /\ direct' = direct \ { Call("detail", repoIdx, foldIdx) }
    /\ IF outcome = "ok"
       THEN /\ lastResponse' = Response("detail", remaining, (now \div 1000) + ahead, now)
            /\ stats' = FoldFirst(stats, userCommits[foldIdx])
            /\ folded' = Append(folded, userCommits[foldIdx])
            /\ totalCommits' = totalCommits + 1
       ELSE UNCHANGED << lastResponse, stats, totalCommits, folded >>
    /\ IF foldIdx < Len(userCommits)
       THEN foldIdx' = foldIdx + 1 /\ pc' = "f_commit" /\ UNCHANGED repoIdx
       ELSE f_NextRepo /\ UNCHANGED foldIdx
    /\ UNCHANGED << route, remoteRepos, username, now, limiterVars,
                    progressController, emitted, userEmails, nonForkRepos,
                    processedRepos, visited, userCommits, batchStart,
                    batchOk, processedCommits, commitsByHour, wakeAt, thrown,
                    caught >>

\* After the last repository: the averages are computed, the stats returned.
f_Finish ==
    /\ UNCHANGED << folded, progressCalls >>
    /\ UNCHANGED << failedBatches, storeVars >>
    /\ pc = "f_loop"
    /\ repoIdx > Len(nonForkRepos)
    /\ stats' = Finalize(stats)
    /\ averaged' = averaged + 1
    /\ pc' = "completed"
    /\ UNCHANGED << route, remoteRepos, username, now, limiterVars, direct,
                    lastResponse, progressController, emitted, userEmails,
                    nonForkRepos, repoIdx, processedRepos, visited,
                    userCommits, foldIdx, batchStart, batchOk, totalCommits,
                    processedCommits, commitsByHour, wakeAt, thrown, faults,
                    caught >>

\* The limiter, which the whole process shares.
\* ------------------------------------------- the routes' use of the store
\* Everything of a route step that is neither the store nor the position.
routeFrame == << route, remoteRepos, username, now, limiterVars, direct,
                lastResponse, progressController, emitted, userEmails,
                nonForkRepos, repoIdx, processedRepos, visited, userCommits,
                foldIdx, batchStart, batchOk, totalCommits, processedCommits,
                stats, commitsByHour, wakeAt, faults, caught, folded,
                progressCalls, averaged, failedBatches, session, userExists,
                pendingUpdates, other >>

\* After the profile: prisma.user.findFirst, then what the route decides
\* from the record it read.  /api/commits answers 404 for an unknown user,
\* the recorded progress while an analysis is in progress, the cached data
\* when the cached record is younger than CACHE_TTL, and otherwise goes on
\* to the analysisProgress upsert.  The details route answers 404 or starts
\* the pipeline and returns the stream.  A rejected read throws; the
\* details route's catch block then unregisters the writer.
r_Lookup(read) ==
    /\ pc = "r_lookup"
    /\ IF read # "ok"
       THEN /\ pc' = "failed"
            /\ thrown' = "store"
            /\ progressController' = IF route = "details" THEN None
                                     ELSE progressController
            /\ response' = IF route = "details" THEN "error" ELSE response
       ELSE /\ UNCHANGED << thrown, progressController >>
            /\ IF ~userExists
               THEN response' = "404" /\ pc' = "answered"
               ELSE IF route = "details"
               THEN response' = "stream" /\ pc' = "b_start"
               ELSE IF analysis = "in_progress"
               THEN response' = "progress" /\ pc' = "answered"
               ELSE IF Fresh(cache, now)
               THEN response' = "cached" /\ pc' = "answered"
               ELSE pc' = "r_upsert" /\ UNCHANGED response
    /\ UNCHANGED << route, remoteRepos, username, now, limiterVars, direct,
                    lastResponse, emitted, userEmails, nonForkRepos, repoIdx,
                    processedRepos, visited, userCommits, foldIdx, batchStart,
                    batchOk, totalCommits, processedCommits, stats,
                    commitsByHour, wakeAt, faults, caught, folded,
                    progressCalls, averaged, failedBatches, session,
                    userExists, cache, analysis, progress, pendingUpdates,
                    other, writer >>

\* The awaited analysisProgress upsert of /api/commits: status
\* 'in_progress', progress {}; then the pipeline starts.
r_Upsert(write) ==
    /\ pc = "r_upsert"
    /\ IF write = "ok"
       THEN /\ analysis' = "in_progress"
            /\ progress' = Progress("empty", 0)
            /\ pc' = "b_start"
            /\ UNCHANGED thrown
       ELSE /\ pc' = "failed"
            /\ thrown' = "store"
            /\ UNCHANGED << analysis, progress >>
    /\ UNCHANGED << routeFrame, cache, response, writer >>

\* /api/commits after the pipeline: the awaited transaction upserts the
\* cached record and marks the analysis completed with the statistics as
\* its progress, then the statistics are returned; a rejected transaction
\* writes nothing and throws.
r_Transaction(write) ==
    /\ pc = "r_transaction"
    /\ IF write = "ok" /\ analysis # None
       THEN /\ cache' = CacheRecord(now, "run")
            /\ analysis' = "completed"
            /\ progress' = Progress("final", totalCommits)
            /\ response' = "stats"
            /\ pc' = "completed"
            /\ UNCHANGED thrown
       ELSE /\ pc' = "failed"
            /\ thrown' = "store"
            /\ UNCHANGED << cache, analysis, progress, response >>
    /\ UNCHANGED << routeFrame, writer >>

\* The catch block of /api/commits: the user is read again and the
\* analysis record is marked 'error' (an update: it needs the record to
\* exist), then the error response is returned.  A rejection inside the
\* catch block leaves the handler with an unhandled exception.
r_Catch(read, write) ==
    /\ route = "commits"
    /\ pc = "failed"
    /\ response = None
    /\ IF read # "ok"
       THEN response' = "unhandled" /\ UNCHANGED analysis
       ELSE IF ~userExists
       THEN response' = "error" /\ UNCHANGED analysis
       ELSE IF analysis = None \/ write # "ok"
       THEN response' = "unhandled" /\ UNCHANGED analysis
       ELSE response' = "error" /\ analysis' = "error"
    /\ UNCHANGED << routeFrame, pc, cache, thrown, progress, writer >>

\* A progress update an onProgress callback issued reaches the store: the
\* progress field is overwritten; without a record the update rejects and
\* is logged.
StoreApplyUpdate(update) ==
    /\ update \in pendingUpdates
    /\ pendingUpdates' = pendingUpdates \ { update }
    /\ progress' = IF analysis # None THEN update ELSE progress
    /\ UNCHANGED << route, pc, remoteRepos, username, now, limiterVars, direct,
                    lastResponse, progressController, emitted, runVars,
                    session, userExists, cache, analysis, response, other,
                    writer >>

\* The same with the stream closed before the cache write is awaited.
details_ThenClosesFirst(write) ==
    /\ pc = "details_then"
    /\ IF cache.exists /\ write = "ok"
       THEN /\ cache' = CacheRecord(now, "run")
            /\ writer' = Closed(writer)
            /\ pc' = "completed"
       ELSE /\ pc' = "details_rejected"
            /\ writer' = [ writer EXCEPT !.state = "closed", !.closes = @ + 1 ]
            /\ UNCHANGED cache
    /\ UNCHANGED << routeFrame, analysis, response, thrown, progress >>

\* The details route once the statistics are done: the awaited
\* commitStats.update (which needs the record to exist), then the stream
\* is closed; a rejected update rejects the callback before the close.
details_Then(write) ==
    /\ pc = "details_then"
    /\ IF cache.exists /\ write = "ok"
       THEN /\ cache' = CacheRecord(now, "run")
            /\ writer' = Closed(writer)
            /\ pc' = "completed"
       ELSE /\ pc' = "details_rejected"
            /\ UNCHANGED << cache, writer >>
    /\ UNCHANGED << routeFrame, analysis, response, thrown, progress >>

\* The .catch of the details route's promise chain: the statistics or the
\* cache update rejected; the error is logged and the stream closed.
details_Catch ==
    /\ route = "details"
    /\ ~writer.settled
    /\ \/ pc = "details_rejected"
       \/ pc = "failed" /\ response = "stream"
    /\ writer' = Closed(writer)
    /\ pc' = IF pc = "details_rejected" THEN "completed" ELSE pc
    /\ UNCHANGED << routeFrame, cache, analysis, response, thrown, progress >>

RouteStep ==
    \/ \E read \in StoreOutcomes : r_Lookup(read)
    \/ \E write \in StoreOutcomes : r_Upsert(write)
    \/ \E write \in StoreOutcomes : r_Transaction(write)
    \/ \E read \in StoreOutcomes, write \in StoreOutcomes : r_Catch(read, write)
    \/ \E update \in pendingUpdates : StoreApplyUpdate(update)
    \/ \E write \in StoreOutcomes : details_Then(write)
    \/ details_Catch

LimiterStep ==
    \/ LimiterStart
    \/ LimiterRefresh

\* The profile fetch every route starts with.
ProfileStep ==
    \E o \in { "ok", "403", "500" }, rem \in HeaderRemaining, ahead \in HeaderResetAhead :
        ProfileReturn(o, rem, ahead)

\* The route that runs fetchUserCommits, with the progress observer coming
\* and going.
Next ==
    \/ Request("commits_v1")
    \/ LimiterStep
    \/ ProfileStep
    \/ ProgressGET
    \/ ObserverDisconnect
    \/ uc_Start
    \/ \E o \in CallOutcomes, rem \in OtherRemaining, ahead \in OtherResetAhead :
          uc_EmailsReturn(o, rem, ahead)
    \/ \E o \in CallOutcomes, rem \in OtherRemaining, ahead \in OtherResetAhead :
          uc_ReposReturn(o, rem, ahead)
    \/ uc_RepoBegin
    \/ \E o \in ListOutcomes, rem \in OtherRemaining, ahead \in OtherResetAhead :
          uc_CommitsReturn(o, rem, ahead)
    \/ uc_Wake
    \/ uc_Fold
    \/ uc_BatchDispatch
    \/ \E job \in running, o \in CallOutcomes, rem \in OtherRemaining, ahead \in OtherResetAhead :
          uc_DetailReturn(job, o, rem, ahead)
    \/ uc_Finish

Spec == Init /\ [][Next]_vars

\* The steps of the program itself: the limiter's timers, the answers of
\* the remote and the continuations of the request's code.  Requests and
\* the observer's coming and going are the environment's.
RunStep ==
    \/ LimiterStep
    \/ ProfileStep
    \/ uc_Start
    \/ \E o \in CallOutcomes, rem \in OtherRemaining, ahead \in OtherResetAhead :
          uc_EmailsReturn(o, rem, ahead)
    \/ \E o \in CallOutcomes, rem \in OtherRemaining, ahead \in OtherResetAhead :
          uc_ReposReturn(o, rem, ahead)
    \/ uc_RepoBegin
    \/ \E o \in ListOutcomes, rem \in OtherRemaining, ahead \in OtherResetAhead :
          uc_CommitsReturn(o, rem, ahead)
    \/ uc_Wake
    \/ uc_Fold
    \/ uc_BatchDispatch
    \/ \E job \in running, o \in CallOutcomes, rem \in OtherRemaining, ahead \in OtherResetAhead :
          uc_DetailReturn(job, o, rem, ahead)
    \/ uc_Finish

\* Every remote call eventually returns or fails, timers fire and the event
\* loop resumes the code that waits: a step of the program that stays
\* possible is eventually taken.
SpecLive == Spec /\ WF_vars(RunStep)

\* The routes that run fetchBasicCommitStats and fetchDetailedCommitStats.
NextStats ==
    \/ \E r \in { "commits", "details" } : Request(r)
    \/ LimiterStep
    \/ ProfileStep
    \/ b_Start
    \/ \E o \in CallOutcomes, rem \in OtherRemaining, ahead \in OtherResetAhead :
          b_ReposReturn(o, rem, ahead)
    \/ b_RepoBegin
    \/ \E o \in ListOutcomes, rem \in OtherRemaining, ahead \in OtherResetAhead :
          b_CommitsReturn(o, rem, ahead)
    \/ b_Fold
    \/ b_Return
    \/ d_CommitFetch
    \/ \E o \in CallOutcomes, rem \in OtherRemaining, ahead \in OtherResetAhead :
          d_DetailReturn(o, rem, ahead)
    \/ d_Return
    \/ RouteStep

\* These routes take no part in the progress channel of sendProgress.
InitStatsRoutes ==
    /\ Init
    /\ username = "alice"
    /\ progressController = None

SpecStats == InitStatsRoutes /\ [][NextStats]_vars

\* The same routes from every state of the store: the user known or not,
\* and for a known user the cached record absent, fresh or stale and any
\* analysis status (both records belong to a user).
InitRoutes ==
    /\ InitProgram
    /\ username = "alice"
    /\ progressController = None
    /\ session \in { None, "token" }
    /\ userExists \in BOOLEAN
    /\ cache \in { NoCache } \cup { CacheRecord(0 - age, "old") : age \in CacheAges }
    /\ analysis \in AnalysisStates
    /\ ~userExists => (cache = NoCache /\ analysis = None)

SpecRoutes == InitRoutes /\ [][NextStats]_vars

\* ------------------------------------------- updateRateLimits on its own
\* A header of a response: << >> when the response does not carry it,
\* << n >> when it carries the decimal n.
TuneRemaining == { << >>, << 0 >>, << 1 >>, << 3 >>, << 10 >> }
TuneReset == { << >>, << 0 >>, << 1 >>, << 2 >>, << 5 >> }
\* Date.now() when the response is handled, in ms.
TuneTimes == { 0, 500, 1000, 1999, 2500 }

\* parseInt(header || '0', 10)
ParseHeader(h) == IF h = << >> THEN 0 ELSE h[1]

\* updateRateLimits(response) called at time t with the given headers, on
\* whatever settings the limiter has.
Tune(remaining, reset, t) ==
    /\ pc \in { "idle", "tuned" }
    /\ session = "token"
    /\ t >= now
    /\ now' = t
    /\ route' = "updateRateLimits"
    /\ pc' = "tuned"
    /\ LET lim == updateRateLimits(limiter, ParseHeader(remaining),
                                   ParseHeader(reset), t)
       IN  /\ limiter' = lim
           /\ refreshAt' =
                IF lim.reservoirRefreshInterval # limiter.reservoirRefreshInterval
                THEN t + lim.reservoirRefreshInterval ELSE refreshAt
    /\ lastResponse' =
         [ fresh |-> TRUE, op |-> "tune", remaining |-> ParseHeader(remaining),
           reset |-> ParseHeader(reset), at |-> t,
           headers |-> [ remaining |-> remaining, reset |-> reset ] ]
    /\ UNCHANGED << remoteRepos, username, nextStartAt, queue, running, direct,
                    progressController, emitted, runVars, storeVars >>

NextTune ==
    \E remaining \in TuneRemaining, reset \in TuneReset, t \in TuneTimes :
        Tune(remaining, reset, t)

InitTune ==
    /\ InitStatsRoutes
    /\ session = "token"
    /\ remoteRepos = << >>

SpecTune == InitTune /\ [][NextTune]_vars

\* The route on the first version of fetchUserCommits.  After the profile
\* fetch nothing is scheduled on the limiter, so its refresh has no job to
\* release.
NextFirst ==
    \/ Request("commits_first")
    \/ LimiterStart
    \/ ProfileStep
    \/ f_Start
    \/ \E o \in CallOutcomes, rem \in OtherRemaining, ahead \in OtherResetAhead :
          f_EmailsReturn(o, rem, ahead)
    \/ \E o \in CallOutcomes, rem \in OtherRemaining, ahead \in OtherResetAhead :
          f_ReposReturn(o, rem, ahead)
    \/ f_RepoBegin
    \/ \E o \in ListOutcomes, rem \in OtherRemaining, ahead \in OtherResetAhead :
          f_CommitsReturn(o, rem, ahead)
    \/ f_Wake
    \/ f_CommitFetch
    \/ \E o \in CallOutcomes, rem \in OtherRemaining, ahead \in OtherResetAhead :
          f_DetailReturn(o, rem, ahead)
    \/ f_Finish

SpecFirst == InitStatsRoutes /\ [][NextFirst]_vars


\* A step of the server on a request it has received.
ServeStep == pc # "idle" /\ NextStats

\* An authenticated request of a known user who has no analysis record and
\* no cached record younger than CACHE_TTL.
InitServe ==
    /\ InitRoutes
    /\ session = "token"
    /\ userExists
    /\ analysis = None
    /\ ~Fresh(cache, now)

\* The routes with a GitHub API whose calls eventually return or fail, a
\* store that eventually answers each operation, and an event loop that
\* resumes the code that waits.
SpecServe == InitServe /\ [][NextStats]_vars /\ WF_vars(ServeStep)

\* A second GET /api/commits of the same user, served by the same process
\* while the first is being served.  It runs the same handler on the same
\* store; its profile fetch and its pipeline are taken by their outcome.
otherFrame == << route, pc, remoteRepos, username, now, limiterVars, direct,
                 lastResponse, progressController, emitted, runVars, session,
                 userExists, response, pendingUpdates, writer >>

\* The session check and the profile fetch of the second request.
o_Request(outcome) ==
    /\ other = "idle"
    /\ other' = IF session = None THEN "401"
                ELSE IF outcome = "ok" THEN "lookup" ELSE "failed"
    /\ UNCHANGED << otherFrame, cache, analysis, progress >>

\* Its findFirst and the checks on the record it read.
o_Lookup(read) ==
    /\ other = "lookup"
    /\ other' = IF read # "ok" THEN "failed"
                ELSE IF ~userExists THEN "404"
                ELSE IF analysis = "in_progress" THEN "progress"
                ELSE IF Fresh(cache, now) THEN "cached"
                ELSE "upsert"
    /\ UNCHANGED << otherFrame, cache, analysis, progress >>

\* Its analysisProgress upsert, after which its pipeline runs.
o_Upsert(write) ==
    /\ other = "upsert"
    /\ IF write = "ok"
       THEN /\ analysis' = "in_progress"
            /\ progress' = Progress("empty", 0)
            /\ other' = "running"
       ELSE /\ other' = "failed"
            /\ UNCHANGED << analysis, progress >>
    /\ UNCHANGED << otherFrame, cache >>

\* Its pipeline ends and its final transaction is awaited.
o_Transaction(outcome, write) ==
    /\ other = "running"
    /\ IF outcome = "ok" /\ write = "ok" /\ analysis # None
       THEN /\ cache' = CacheRecord(now, "other")
            /\ analysis' = "completed"
            /\ progress' = Progress("final", 0)
            /\ other' = "completed"
       ELSE /\ other' = "failed"
            /\ UNCHANGED << cache, analysis, progress >>
    /\ UNCHANGED otherFrame

\* Its catch block.
o_Catch(read, write) ==
    /\ other = "failed"
    /\ IF read = "ok" /\ write = "ok" /\ userExists /\ analysis # None
       THEN analysis' = "error"
       ELSE UNCHANGED analysis
    /\ other' = "answered"
    /\ UNCHANGED << otherFrame, cache, progress >>

OtherStep ==
    \/ \E outcome \in StoreOutcomes : o_Request(outcome)
    \/ \E read \in StoreOutcomes : o_Lookup(read)
    \/ \E write \in StoreOutcomes : o_Upsert(write)
    \/ \E outcome \in StoreOutcomes, write \in StoreOutcomes :
          o_Transaction(outcome, write)
    \/ \E read \in StoreOutcomes, write \in StoreOutcomes : o_Catch(read, write)

\* Two requests of a known, authenticated user without a cached record.
InitTwo ==
    /\ InitServe
    /\ cache = NoCache

SpecTwo == InitTwo /\ [][NextStats \/ OtherStep]_vars

\* Another client's GET /api/progress in the same process: its stream's
\* controller replaces whatever the global held.
ForeignProgressGET ==
    /\ progressController # "foreign"
    /\ progressController' = "foreign"
    /\ UNCHANGED << route, pc, remoteRepos, username, now, limiterVars,
                    direct, lastResponse, emitted, runVars, storeVars >>

\* Another client's GET /api/commits/details in the same process: it stores
\* the writer of its TransformStream in the same global.
ForeignDetailsRequest ==
    /\ progressController # "writer"
    /\ progressController' = "writer"
    /\ UNCHANGED << route, pc, remoteRepos, username, now, limiterVars,
                    direct, lastResponse, emitted, runVars, storeVars >>

\* fetchUserCommits in a process that serves other clients as well.
SpecShared == Init /\ [][Next \/ ForeignProgressGET \/ ForeignDetailsRequest]_vars

\* The routes on the later version of the pipeline together.
SpecAll == Init /\ [][Next \/ NextStats]_vars

\* ================================================================== claims
InSeq(x, seq) == \E i \in 1..Len(seq) : seq[i] = x

InRepoLoop == repoIdx \in 1..Len(nonForkRepos)

RepoStatuses == { "404", "403", "409", "500" }

\* C1: in fetchUserCommits an error raised while a repository is processed
\* never ends the run: the run never fails inside the repository loop, a
\* run that got past the repository listing visits every non-fork
\* repository, and only the publisher's own failure after the loop can
\* still make it throw.
C1_RepoErrorsNeverAbort ==
    route = "commits_v1" =>
        /\ pc = "failed" => ~InRepoLoop
        /\ (pc = "failed" /\ repoIdx > 0) => thrown = "TypeError"
        /\ (pc = "completed" \/ (pc = "failed" /\ repoIdx > 0)) =>
              /\ nonForkRepos = NonFork(remoteRepos)
              /\ visited = 1..Len(nonForkRepos)
        /\ pc = "completed" => thrown = None

\* A run returned its stats after the catch block handled errors of two
\* kinds, one of them a remote error, in a listing of two repositories.
C1_Witness ==
    /\ pc = "completed"
    /\ Len(nonForkRepos) = 2
    /\ visited = { 1, 2 }
    /\ Cardinality(caught) = 2
    /\ caught \cap RepoStatuses # {}

\* C2 (as claimed): in fetchBasicCommitStats and fetchDetailedCommitStats a
\* failed commit listing of one repository does not reach the caller: the
\* run never fails while it is inside the repository loop.
C2_ListingFailureContained ==
    (route \in { "commits", "details" } /\ pc = "failed") => ~InRepoLoop

\* C3 (as claimed): after the rate-limit sleep the run is still on the
\* same repository (it processes it once more).
C3_RetriesSameRepository ==
    [][(pc = "uc_sleep" /\ pc' # "uc_sleep") => repoIdx' = repoIdx]_vars

\* C4: between two folds the phase counts sum to the run's totalCommits.
C4_PhaseSumIsTotal ==
    SumCounts(stats.commitsByPhase) = totalCommits

\* Folds have happened: ten commits over at least three phases.
C4_Witness ==
    /\ totalCommits >= 10
    /\ Cardinality(DOMAIN stats.commitsByPhase) >= 3

RECURSIVE KeptInRepos(_, _, _, _)
KeptInRepos(repos, user, emails, i) ==
    IF i > Len(repos) THEN 0
    ELSE (IF repos[i].fork THEN 0
          ELSE Len(FilterCommits(repos[i].commits, user, emails)))
         + KeptInRepos(repos, user, emails, i + 1)

\* C5 (as claimed): a fetchUserCommits run in which every remote call
\* succeeded ends with the phase counts summing to the number of commits
\* of the non-fork repositories that pass the author filter.
C5_SumIsKeptCommits ==
    (route = "commits_v1" /\ pc = "completed" /\ faults = 0) =>
        SumCounts(stats.commitsByPhase)
            = KeptInRepos(remoteRepos, username, userEmails, 1)

\* The commit filter has run on the current repository's listing.
Filtered ==
    /\ pc \in { "uc_fold", "uc_batch", "uc_await_batch" }
    /\ InRepoLoop

Listing == nonForkRepos[repoIdx].commits

C8_AllCallsThroughLimiter ==
    direct = {}

\* The limiter settings are those updateRateLimits derives from a response.
TunedFrom(resp) ==
    LET resetInMs == (resp.reset - (resp.at \div 1000)) * 1000
    IN  IF resp.remaining > 0
        THEN /\ limiter.reservoir = resp.remaining
             /\ limiter.minTime = Max(MinTimeFloor, resetInMs \div resp.remaining)
        ELSE resetInMs > 0 =>
             /\ limiter.reservoir = 0
             /\ limiter.reservoirRefreshInterval = resetInMs

\* C9 (as claimed): after every successful remote call, and until the next
\* call starts, the limiter is tuned from that response's headers.
C9_RetunedAfterEveryCall ==
    lastResponse.fresh => TunedFrom(lastResponse)

\* A profile response reported remaining = 10 and a reset 5000 ms ahead.
C10_Case ==
    /\ lastResponse.fresh
    /\ lastResponse.op = "profile"
    /\ lastResponse.remaining = 10
    /\ lastResponse.reset * 1000 - lastResponse.at = 5000

\* C10 (amended): after a response reporting remaining = 10 with the reset
\* 5000 ms ahead, the minimum interval is exactly 1000 ms: the 1000 ms
\* floor exceeds floor(5000 / 10) = 500.
C10_IntervalIsTheFloor ==
    C10_Case => limiter.minTime = 1000

C10_Witness ==
    C10_Case /\ limiter.reservoir = 10

\* C10 (as claimed): the interval is exactly 500 ms.
C10_IntervalIs500 ==
    C10_Case => limiter.minTime = 500

\* Time until the reset as updateRateLimits computes it from a response.
ResetInMs(resp) == (resp.reset - (resp.at \div 1000)) * 1000

\* A profile response reported remaining = 0 with the reset in the future,
\* and the limiter has not acted since.
C11_Case ==
    /\ lastResponse.fresh
    /\ lastResponse.op = "profile"
    /\ lastResponse.remaining = 0
    /\ ResetInMs(lastResponse) > 0

ProcessedRepos == { nonForkRepos[i] : i \in visited }

\* The non-fork repositories on all pages of the remote's listing.
RemoteNonForks ==
    { remoteRepos[i] : i \in { j \in 1..Len(remoteRepos) : ~remoteRepos[j].fork } }

\* C12 (as claimed): a run that returned its stats has processed exactly
\* the non-fork repositories of all pages of the repository listing.
C12_ProcessesEveryNonFork ==
    pc = "completed" => ProcessedRepos = RemoteNonForks

\* The diff total of a commit.
DiffTotal(commit) == commit.additions + commit.deletions

\* Position in a sequence of commits of the first one of maximal diff total.
FirstLargest(commits) ==
    CHOOSE i \in 1..Len(commits) :
        /\ \A j \in 1..Len(commits) : DiffTotal(commits[j]) <= DiffTotal(commits[i])
        /\ \A j \in 1..(i - 1) : DiffTotal(commits[j]) < DiffTotal(commits[i])

\* C13: largestCommit is the first of the commits folded with diff
\* statistics whose total is the maximum; a later commit of equal total
\* never replaces it.  As long as no folded commit has a positive total it
\* is the initial placeholder of size 0.
C13_LargestIsFirstMaximum ==
    IF \E i \in 1..Len(folded) : DiffTotal(folded[i]) > 0
    THEN LET first == folded[FirstLargest(folded)]
         IN  /\ stats.largestCommit.size = DiffTotal(first)
             /\ stats.largestCommit.message = first.sha
             /\ stats.largestCommit.date = [ t |-> first.t, hour |-> first.hour ]
    ELSE stats.largestCommit = InitStats.largestCommit

\* Two folded commits tie for the maximum.
C13_Witness ==
    \E i, j \in 1..Len(folded) :
        /\ i < j
        /\ folded[i].sha # folded[j].sha
        /\ DiffTotal(folded[i]) = stats.largestCommit.size
        /\ DiffTotal(folded[j]) = stats.largestCommit.size
        /\ stats.largestCommit.message = folded[i].sha

RECURSIVE SumOfTotals(_, _, _)
\* Sum of the diff totals of the commits of phase p in commits[i..].
SumOfTotals(commits, p, i) ==
    IF i > Len(commits) THEN 0
    ELSE (IF getLunarPhase(commits[i].t) = p THEN DiffTotal(commits[i]) ELSE 0)
         + SumOfTotals(commits, p, i + 1)

\* Number of commits of phase p in a sequence.
CountOfPhase(commits, p) ==
    Cardinality({ i \in 1..Len(commits) : getLunarPhase(commits[i].t) = p })

\* C14 (as claimed): when fetchUserCommits has returned, averageCommitSize[p]
\* is the rounded average of the diff totals that were summed into it
\* (stated for runs without a progress observer, in which the publisher
\* never throws).
C14_AverageOfSummedSizes ==
    (route = "commits_v1" /\ pc = "completed" /\ progressController = None) =>
        \A p \in DOMAIN stats.averageCommitSize :
            stats.averageCommitSize[p]
                = RoundDiv(SumOfTotals(folded, p, 1), CountOfPhase(folded, p))

\* C15 (as claimed): the averaging step applied to the stats a run returned
\* (to which it has been applied once) changes nothing.
C15_FinalizeIdempotent ==
    (route = "commits_v1" /\ pc = "completed") =>
        Finalize(stats).averageCommitSize = stats.averageCommitSize

\* C16 (as claimed): the stats a completed fetchUserCommits run returns
\* have all 8 phase labels as keys of commitsByPhase.
C16_AllPhaseKeysPresent ==
    (route = "commits_v1" /\ pc = "completed") =>
        DOMAIN stats.commitsByPhase = Phases

\* The hours of each time-of-day bucket as the claim lists them.
BucketHours ==
    [ dawn |-> 4..7, day |-> 8..15, dusk |-> 16..19,
      night |-> (20..23) \cup (0..3) ]

\* C17: the four buckets partition the hours 0..23, and every fold of
\* fetchUserCommits increments exactly the one bucket that holds the
\* commit's local hour, by one.
C17_OneBucketPerHour ==
    [][ /\ \A h \in 0..23 :
              /\ h \in BucketHours[TimeBucket(h)]
              /\ Cardinality({ b \in DOMAIN BucketHours : h \in BucketHours[b] }) = 1
        /\ (route = "commits_v1" /\ totalCommits' = totalCommits + 1) =>
              \A b \in DOMAIN BucketHours :
                  stats'.timeOfDay[b] =
                      stats.timeOfDay[b]
                      + (IF userCommits[foldIdx].hour \in BucketHours[b] THEN 1 ELSE 0)
      ]_vars

\* Commits have been folded into each of the four buckets.
C17_Witness ==
    /\ route = "commits_v1"
    /\ \A b \in DOMAIN BucketHours : stats.timeOfDay[b] >= 1
    /\ stats.timeOfDay.dawn + stats.timeOfDay.day
         + stats.timeOfDay.dusk + stats.timeOfDay.night = totalCommits

\* C18 (as claimed): for every commit of a listing the run has fetched, the
\* phase of its date is the phase of the date one synodic month later.
C18_PeriodicInSynodicMonth ==
    \A i \in 1..Len(userCommits) :
        getLunarPhase(userCommits[i].t) = getLunarPhase(userCommits[i].t + lunarCycle)

\* The label of the window that holds a phase fraction f/32 in [0,1), as
\* the claim lists the windows.
WindowLabel(f) ==
    CASE f \in (0..1) \cup (30..31) -> "New Moon"
      [] f \in 2..5 -> "Waxing Crescent"
      [] f \in 6..9 -> "First Quarter"
      [] f \in 10..13 -> "Waxing Gibbous"
      [] f \in 14..17 -> "Full Moon"
      [] f \in 18..21 -> "Waning Gibbous"
      [] f \in 22..25 -> "Last Quarter"
      [] f \in 26..29 -> "Waning Crescent"
      [] OTHER -> None

\* C19 (as claimed): for every commit of a listing the run has fetched, the
\* phase fraction of its date lies in [0,1) and the label is that of the
\* window holding it.
C19_FractionInUnitInterval ==
    \A i \in 1..Len(userCommits) :
        /\ Phase32(userCommits[i].t) \in 0..(lunarCycle - 1)
        /\ getLunarPhase(userCommits[i].t) = WindowLabel(Phase32(userCommits[i].t))

\* The frames of the detailed pass among those handed to onProgress.
DetailCalls ==
    FilterSeq(progressCalls, LAMBDA f : f.pass = "details", 1)

\* C20 (as claimed): a completed detailed pass over 12 commits has published
\* exactly two mid-run snapshots, at the 5th and the 10th commit, and one
\* completion snapshot after them.
C20_SnapshotsOfTwelve ==
    (route = "details" /\ pc = "completed" /\ processedCommits = 12) =>
        /\ DetailCalls = << [ pass |-> "details", current |-> 5 ],
                            [ pass |-> "details", current |-> 10 ] >>
        /\ emitted.message = "complete"


\* C21: every progress snapshot fetchUserCommits publishes is taken between
\* two complete folds: the phase counts of the snapshot sum to its
\* totalCommits, and so do its four time-of-day counts.
TimeOfDaySum(tod) == tod.dawn + tod.day + tod.dusk + tod.night

C21_SnapshotBetweenFolds ==
    (route = "commits_v1" /\ emitted.hasProgress) =>
        /\ SumCounts(emitted.commitsByPhase) = emitted.totalCommits
        /\ TimeOfDaySum(emitted.timeOfDay) = emitted.totalCommits

\* A snapshot published from inside the commit loop, after five folds.
C21_Witness ==
    /\ route = "commits_v1"
    /\ emitted.hasProgress
    /\ emitted.totalCommits = StatsProgressEvery
    /\ pc = "uc_fold"


\* C22: the observer's state never changes the result of fetchUserCommits.
\* A run in which no remote call fails ends completed whether or not the
\* observer's stream was closed on the way: every repository was
\* processed, no publish threw, and the phase counts are those of the
\* user's commits.
C22_ObserverNeverChangesResult ==
    (route = "commits_v1" /\ faults = 0 /\ pc \in { "completed", "failed" }) =>
        /\ pc = "completed"
        /\ thrown = None
        /\ "TypeError" \notin caught
        /\ processedRepos = Len(nonForkRepos)
        /\ SumCounts(stats.commitsByPhase)
             = KeptInRepos(remoteRepos, username, userEmails, 1)


\* C23: with no progress observer registered sendProgress is a no-op.  No
\* step of a fetchUserCommits run taken while global.progressController is
\* unset puts a frame on the stream, and no publish throws: the run neither
\* fails with the publisher's TypeError nor enters a repository's catch
\* block with one.
C23_NoObserverNoEffect ==
    [][ (route = "commits_v1" /\ progressController = None) =>
            /\ emitted' = emitted
            /\ "TypeError" \in caught' => "TypeError" \in caught
            /\ thrown' = "TypeError" => thrown = "TypeError" ]_vars

\* A run completed without an observer: sendProgress was called for every
\* message and for a snapshot of five commits, and nothing was emitted.
C23_Witness ==
    /\ route = "commits_v1"
    /\ progressController = None
    /\ pc = "completed"
    /\ totalCommits >= StatsProgressEvery
    /\ emitted = NoFrame


\* C24: a fetchUserCommits run ends in exactly one terminal outcome.  Once
\* started it reaches Completed or Failed; a terminal run stays as it is,
\* with nothing folded afterwards; the averaging step runs at most once and
\* only after the loop has left the last repository, and a completed run
\* has run it exactly once.
C24_TerminalIsFinal ==
    pc \in { "completed", "failed" } =>
        /\ pc' = pc
        /\ stats' = stats
        /\ folded' = folded
        /\ totalCommits' = totalCommits
        /\ averaged' = averaged

C24_AveragedOnceAtTheEnd ==
    averaged' # averaged => (averaged = 0 /\ repoIdx > Len(nonForkRepos))

C24_OneTerminalOutcome ==
    /\ (pc = "uc_start") ~> (pc \in { "completed", "failed" })
    /\ [][C24_TerminalIsFinal]_vars
    /\ [][C24_AveragedOnceAtTheEnd]_vars
    /\ [](pc = "completed" => averaged = 1)

\* A completed run over two repositories with folded details.
C24_Witness ==
    /\ route = "commits_v1"
    /\ pc = "completed"
    /\ averaged = 1
    /\ Len(nonForkRepos) = MaxRepos
    /\ Len(folded) >= BATCH_SIZE


\* C25: the cache check of GET /api/commits.  A cached record updated less
\* than 24 hours ago is never recomputed: the request is answered with the
\* cached data, or with the recorded progress when an analysis is recorded
\* as in progress, which is checked first.  The pipeline starts only when
\* the record is absent or at least 24 hours old and no analysis is in
\* progress.
YoungCache == cache.exists /\ now - cache.updatedAt < CACHE_TTL

C25_Lookup == route = "commits" /\ pc = "r_lookup" /\ pc' \notin { pc, "failed" }

C25_FreshCacheNotRecomputed ==
    [][ C25_Lookup =>
            /\ YoungCache => pc' = "answered"
            /\ (YoungCache /\ analysis # "in_progress") => response' = "cached"
            /\ analysis = "in_progress" => response' = "progress"
            /\ pc' = "r_upsert" => (~YoungCache /\ analysis # "in_progress") ]_vars

\* The request was answered from a record one millisecond inside the window.
C25_Witness ==
    /\ route = "commits"
    /\ pc = "answered"
    /\ response = "cached"
    /\ now - cache.updatedAt = CACHE_TTL - 1
    /\ queue = << >> /\ running = {} /\ totalCommits = 0

\* C25 as stated: a record updated less than 24 hours ago is always
\* answered with the cached data.
C25_FreshCacheReturned ==
    [][ (C25_Lookup /\ YoungCache) => response' = "cached" ]_vars


\* C26: a failing store write does not abort GET /api/commits.  Whatever
\* the analysis-progress upsert answers, the pipeline starts; whatever the
\* final transaction answers, the computed statistics are returned.
C26_UpsertStep == route = "commits" /\ pc = "r_upsert" /\ pc' # pc

C26_CacheWriteStep == route = "commits" /\ pc = "r_transaction" /\ pc' # pc

C26_StoreFailureDoesNotAbort ==
    [][ /\ C26_UpsertStep => (pc' = "b_start" /\ thrown' = None)
        /\ C26_CacheWriteStep => (pc' = "completed" /\ response' = "stats") ]_vars


\* C27: a request without an access token is rejected before anything
\* else happens.  On all three routes it is answered 401 with no remote
\* call scheduled or issued, the store left as it was, no writer registered
\* as the progress channel and no run started.
C27_NoTokenRejectedFirst ==
    session = None =>
        /\ pc \in { "idle", "answered" }
        /\ pc = "answered" => response = "401"
        /\ queue = << >> /\ running = {} /\ direct = {}
        /\ lastResponse = NoResponse /\ faults = 0
        /\ cache = NoCache /\ analysis = None
        /\ progressController # "writer"
        /\ nonForkRepos = << >> /\ totalCommits = 0 /\ stats = InitStats

\* The details route answered 401.
C27_Witness ==
    /\ session = None
    /\ route = "details"
    /\ pc = "answered"
    /\ response = "401"


\* C28: after a detailed run has finished, the cache holds that run's
\* statistics for the user, whether or not the user had a cached record
\* before.
C28_DetailsRunIsCached ==
    (route = "details" /\ pc = "completed") =>
        (cache.exists /\ cache.data = "run")


\* C29: a failed detail fetch costs the diff statistics of its own batch
\* only.  In a completed run without an observer and without a failed
\* listing, the commits folded with their diff statistics are, in order,
\* those of every batch of every repository except the batches that
\* rejected; the additions and deletions are summed over exactly these
\* commits; and every kept commit is counted in the phase and time-of-day
\* counts.
RECURSIVE BatchesOf(_, _, _)
BatchesOf(commits, repo, from) ==
    IF from > Len(commits) THEN << >>
    ELSE (IF << repo, from >> \in failedBatches THEN << >>
          ELSE WithStats(SubSeq(commits, from, BatchEnd(from, Len(commits)))))
         \o BatchesOf(commits, repo, from + BATCH_SIZE)

RECURSIVE SurvivingBatches(_)
SurvivingBatches(i) ==
    IF i > Len(nonForkRepos) THEN << >>
    ELSE BatchesOf(FilterCommits(nonForkRepos[i].commits, username, userEmails), i, 1)
         \o SurvivingBatches(i + 1)

RECURSIVE SumField(_, _, _)
SumField(commits, field, i) ==
    IF i > Len(commits) THEN 0
    ELSE commits[i][field] + SumField(commits, field, i + 1)

C29_Case ==
    /\ route = "commits_v1"
    /\ pc = "completed"
    /\ progressController = None
    /\ caught = {}

C29_OnlyTheFailedBatchIsLost ==
    C29_Case =>
        /\ folded = SurvivingBatches(1)
        /\ stats.totalAdditions = SumField(folded, "additions", 1)
        /\ stats.totalDeletions = SumField(folded, "deletions", 1)
        /\ SumCounts(stats.commitsByPhase)
             = KeptInRepos(remoteRepos, username, userEmails, 1)
        /\ TimeOfDaySum(stats.timeOfDay)
             = KeptInRepos(remoteRepos, username, userEmails, 1)

\* The first batch of a repository rejected and its second batch was folded.
C29_Witness ==
    /\ C29_Case
    /\ \E b \in failedBatches :
          /\ b[2] = 1
          /\ << b[1], 1 + BATCH_SIZE >> \notin failedBatches
          /\ BatchesOf(FilterCommits(nonForkRepos[b[1]].commits, username, userEmails),
                       b[1], 1 + BATCH_SIZE) # << >>


\* C30: detail-fetch batches are sequential.  The detail fetches the
\* limiter holds, queued or started, at any moment all belong to one batch
\* of one repository: none of batch k+1 is scheduled while one of batch k
\* has not settled.
PendingDetails ==
    { queue[i] : i \in { k \in 1..Len(queue) : queue[k].op = "detail" } }
        \cup { job \in running : job.op = "detail" }

BatchOf(job) == << job.repo, (job.idx - 1) \div BATCH_SIZE >>

C30_BatchesSequential ==
    route = "commits_v1" =>
        \A j1, j2 \in PendingDetails : BatchOf(j1) = BatchOf(j2)


\* C31: after updateRateLimits handled a response reporting remaining > 0,
\* the minimum interval is the larger of the 1000 ms floor and
\* floor(ms until reset / remaining), and the budget is remaining; the
\* interval is never below the floor, whether the reset lies ahead or in
\* the past.
C31_Case ==
    /\ lastResponse.fresh
    /\ lastResponse.op = "tune"
    /\ lastResponse.remaining > 0

C31_IntervalSpreadsBudget ==
    C31_Case =>
        /\ limiter.minTime
             = Max(MinTimeFloor, ResetInMs(lastResponse) \div lastResponse.remaining)
        /\ limiter.minTime >= MinTimeFloor
        /\ limiter.reservoir = lastResponse.remaining

\* A response with budget left whose reset time had already passed.
C31_Witness ==
    /\ C31_Case
    /\ ResetInMs(lastResponse) < 0
    /\ limiter.minTime = MinTimeFloor
    /\ limiter.reservoir = 3


\* C40: updateRateLimits changes no limiter setting when the response
\* reports remaining = 0, or carries no remaining header, and its reset
\* time is not in the future.
C40_Case(resp) ==
    /\ resp.fresh
    /\ resp.op = "tune"
    /\ resp.remaining = 0
    /\ ResetInMs(resp) <= 0

C40_NothingToTuneFrom ==
    [][ C40_Case(lastResponse') => limiter' = limiter ]_vars

\* A response without a remaining header and with a passed reset was
\* handled on settings an earlier response had tuned, and they are kept.
C40_Witness ==
    /\ C40_Case(lastResponse)
    /\ lastResponse.headers.remaining = << >>
    /\ ResetInMs(lastResponse) < 0
    /\ limiter.reservoir = 3
    /\ limiter.minTime = 1666


\* C32: every average the pipeline returns is computed with a divisor of at
\* least 1.  When fetchUserCommits reaches its averaging step every phase
\* key of averageCommitSize has a commit count of at least 1, and the
\* averageCommitSize fetchDetailedCommitStats returns is a finite number,
\* also for a user without commits.
C32_AtAveragingStep ==
    (route = "commits_v1" /\ pc = "uc_loop" /\ repoIdx > Len(nonForkRepos)) =>
        \A p \in DOMAIN stats.averageCommitSize : Get(stats.commitsByPhase, p) >= 1

C32_DetailedAverageFinite ==
    (route = "details" /\ pc \in { "details_then", "completed" }) =>
        stats.averageCommitSize.finite

C32_DivisorAtLeastOne ==
    /\ C32_AtAveragingStep
    /\ C32_DetailedAverageFinite


\* C39: every commit fetchUserCommits folds is the user's own and not an
\* automation's.  The commits the loops fold, and those folded with their
\* diff statistics, all have the target username as author login or a
\* verified e-mail of the user as author e-mail, and neither their author
\* e-mail nor their author login is on the denylist.
VerifiedEmails == { e.email : e \in { r \in RemoteEmails : r.verified } }

C39_UsersOwn(commit) ==
    /\ \/ commit.login = username
       \/ (commit.email # None /\ commit.email \in VerifiedEmails)
    /\ commit.email = None \/ commit.email \notin GITHUB_SYSTEM_AUTHORS
    /\ commit.login = None \/ commit.login \notin GITHUB_SYSTEM_AUTHORS

C39_OnlyOwnCommitsFolded ==
    route = "commits_v1" =>
        /\ \A i \in 1..Len(userCommits) : C39_UsersOwn(userCommits[i])
        /\ \A i \in 1..Len(folded) : C39_UsersOwn(folded[i])

\* A run folded a commit matched by verified e-mail alone, from a listing
\* that also held a denylisted commit carrying the user's login.
C39_Witness ==
    /\ route = "commits_v1"
    /\ pc = "completed"
    /\ \E i \in 1..Len(folded) : folded[i].login # username
    /\ \E r \in 1..Len(nonForkRepos) :
          \E i \in 1..Len(nonForkRepos[r].commits) :
              /\ nonForkRepos[r].commits[i].login = username
              /\ OnDenylist(nonForkRepos[r].commits[i])


\* C36: whatever step of GET /api/commits fails, the handler returns the
\* error response.  A request that failed at the profile fetch, a store
\* read, the pipeline or a store write ends answered with the error's
\* message and status, also when no analysis record exists for the user.
C36_Failed == route = "commits" /\ pc = "failed" /\ response # None

C36_ErrorAlwaysAnswered == C36_Failed => response = "error"


\* C38: the progress stream of GET /api/commits/details is closed exactly
\* once, after the detailed run has finished.  close() is never called a
\* second time and never while the run is going on, no frame is written
\* after it, and every run that was started ends with the stream closed:
\* when the statistics were cached, when the run failed and when the cache
\* write failed.
C38_RunOver == pc \in { "details_then", "details_rejected", "completed", "failed" }

C38_CloseIsLastAndOnly ==
    route = "details" =>
        /\ writer.closes <= 1
        /\ writer.lateWrites = 0
        /\ writer.state = "closed" => (writer.closes = 1 /\ C38_RunOver)
        /\ pc = "completed" => writer.state = "closed"

C38_StreamClosedOnce ==
    /\ []C38_CloseIsLastAndOnly
    /\ (route = "details" /\ pc = "b_start") ~> (writer.state = "closed")

\* A run that wrote a frame ended with a rejected cache write and the
\* stream closed once.
C38_Witness ==
    /\ route = "details"
    /\ pc = "completed"
    /\ ~cache.exists
    /\ progressCalls # << >>
    /\ writer.state = "closed"
    /\ writer.closes = 1


\* C35: an analysis marked in progress does not stay so.  Every
\* GET /api/commits that set the status to in_progress eventually sets it
\* to completed or error, whether the pipeline succeeds or throws.
C35_InProgressIsLeft ==
    (route = "commits" /\ analysis = "in_progress")
        ~> (analysis \in { "completed", "error" })


\* C34: after GET /api/commits completed successfully the store holds the
\* final statistics as the analysis progress and the status completed: no
\* progress update issued during the run is applied to the store after
\* the final transaction.
C34_Completed == route = "commits" /\ pc = "completed"

C34_FinalProgressStays ==
    C34_Completed =>
        /\ analysis = "completed"
        /\ progress = Progress("final", totalCommits)


\* C33: for one user at most one analysis run is in progress at a time.
\* Of two GET /api/commits of the same user with a stale or absent cache,
\* whatever their interleaving, only one starts a pipeline run; the other
\* is answered with the stored progress.
RunningPipeline ==
    /\ route = "commits"
    /\ pc \notin { "idle", "await_profile", "r_lookup", "r_upsert",
                   "answered", "completed", "failed" }

C33_OneRunPerUser == ~(RunningPipeline /\ other = "running")


\* C37: each progress event of a run is delivered to the observer stream
\* opened for that run.  Whatever other observers and runs the process
\* serves meanwhile, sendProgress enqueues an event of the run only on the
\* run's own observer stream, and never meets a stream of another kind (the
\* details route's writer) in the global.
C37_Published == emitted' # emitted

C37_MetOtherKind ==
    /\ progressController = "writer"
    /\ \/ "TypeError" \in caught' /\ "TypeError" \notin caught
       \/ thrown' = "TypeError" /\ thrown # "TypeError"

C37_SendStep ==
    route = "commits_v1" =>
        /\ C37_Published => progressController = "stream"
        /\ ~C37_MetOtherKind

C37_EventsReachOwnStream == [][C37_SendStep]_vars

====
